---- MODULE Spec2Model ----
(***************************************************************************)
(* Model of bunker-finder: the feed loader and OSM normaliser              *)
(* (hooks/useGeoJSON.ts), the enrichment client (hooks/useExternalData.ts  *)
(* and its image-lookup revision), and the search/filter evaluators of     *)
(* FortificationMap and Sidebar.                                           *)
(*                                                                         *)
(* Strings are sequences of one-character strings.  A precomposed accented *)
(* letter is written with a trailing "^" ("a^" is U+00E2, "e^" is U+00EA,  *)
(* "E^" is U+00CA); the one-character string "^" is the combining          *)
(* circumflex U+0302.                                                      *)
(***************************************************************************)
EXTENDS Integers, Sequences, FiniteSets, TLC

VARIABLES
    \* ---- search/filter evaluation (FortificationMap, Sidebar) ----
    viewForts,        \* the `fortifications` prop of both views
    searchTerm,       \* the search term (Map prop, Sidebar state)
    activeFilters,    \* facet id -> selected value (Map prop, Sidebar state)
    mapFiltered,      \* FortificationMap useMemo filteredFortifications
    sidebarFiltered,  \* Sidebar useMemo filteredFortifications
    \* ---- normaliser ----
    osmElements,      \* osmData.elements handed to convertOSMToGeoJSON
    converted,        \* its result (Pending before the call)
    \* ---- useGeoJSON and useExternalData ----
    fortifications,   \* useState([]): features, each naming its property bag
    loading,          \* useState(true)
    error,            \* useState(null)
    filters,          \* useState([])
    isDataEnriched,   \* useState(false)
    heap,             \* the property-bag objects, by reference
    pendingLoads,     \* loadGeoJSON calls awaiting their fetch
    loadsStarted,     \* how often the load effect has run
    enr,              \* the enrichSingleFortification calls in flight
    extLoading,       \* useExternalData: useState(false)
    extError,         \* useExternalData: useState(null)
    revision,         \* which revision of useExternalData is built in
    now,              \* the clock, in hours
    op                \* the step taken last

viewVars == <<viewForts, searchTerm, activeFilters, mapFiltered,
              sidebarFiltered>>
convVars == <<osmElements, converted>>
hookVars == <<fortifications, loading, error, filters, isDataEnriched, heap,
              pendingLoads, loadsStarted, enr, extLoading, extError,
              revision, now, op>>
vars == <<viewVars, convVars, hookVars>>

-----------------------------------------------------------------------------
(* Bounds *)

MaxForts == 2
MaxElements == 2
MaxLoads == 2
MaxTime == 24
MaxEnrich == 2
MaxFacetForts == 3

-----------------------------------------------------------------------------
(* JavaScript values *)

Undefined == <<"undefined">>
Null == <<"null">>

\* ToBoolean for strings, null and undefined
Truthy(v) == v # Undefined /\ v # Null /\ v # <<>>

\* a || b
Or(a, b) == IF Truthy(a) THEN a ELSE b

\* optional numbers: {} is "absent", {n} is the number n
NoNum == {}
Num(n) == {n}
NumTruthy(x) == x # {} /\ x # {0}
NumVal(x) == CHOOSE n \in x : TRUE

-----------------------------------------------------------------------------
(* The hooks before anything has run: the useState initial values *)

Procs == 1..MaxEnrich

NoEnrichment == [pc |-> "idle"]

HookIdle ==
    /\ fortifications = <<>> /\ loading = TRUE /\ error = "null"
    /\ filters = <<>> /\ isDataEnriched = FALSE /\ heap = <<>>
    /\ pendingLoads = 0 /\ loadsStarted = 0
    /\ enr = [p \in Procs |-> NoEnrichment]
    /\ extLoading = FALSE /\ extError = "null"
    /\ now = 0 /\ op = [name |-> "init"]

-----------------------------------------------------------------------------
(* String primitives *)

UpperCase == <<"A","B","C","D","E","F","G","H","I","J","K","L","M",
               "N","O","P","Q","R","S","T","U","V","W","X","Y","Z">>
LowerCase == <<"a","b","c","d","e","f","g","h","i","j","k","l","m",
               "n","o","p","q","r","s","t","u","v","w","x","y","z">>

IsUpper(c) == \E i \in 1..26 : UpperCase[i] = c

\* String.prototype.toLowerCase, one character
LowerChar(c) ==
    IF IsUpper(c) THEN LowerCase[CHOOSE i \in 1..26 : UpperCase[i] = c]
    ELSE IF c = "E^" THEN "e^"
    ELSE c

toLowerCase(s) == [i \in 1..Len(s) |-> LowerChar(s[i])]

\* canonical decomposition (NFD) of one character
Decompose(c) ==
    CASE c = "a^" -> <<"a", "^">>
      [] c = "e^" -> <<"e", "^">>
      [] c = "E^" -> <<"E", "^">>
      [] OTHER -> <<c>>

RECURSIVE NFD(_)
NFD(s) == IF s = <<>> THEN <<>> ELSE Decompose(Head(s)) \o NFD(Tail(s))

\* the range U+0300..U+036F
IsCombiningMark(c) == c = "^"

\* .replace(/[U+0300-U+036F]/g, '')
StripMarks(s) == SelectSeq(s, LAMBDA c : ~IsCombiningMark(c))

IsWhiteSpace(c) == c = " "

RECURSIVE TrimStart(_)
TrimStart(s) ==
    IF s # <<>> /\ IsWhiteSpace(Head(s)) THEN TrimStart(Tail(s)) ELSE s

RECURSIVE TrimEnd(_)
TrimEnd(s) ==
    IF s # <<>> /\ IsWhiteSpace(s[Len(s)])
    THEN TrimEnd(SubSeq(s, 1, Len(s) - 1)) ELSE s

\* String.prototype.trim
trim(s) == TrimEnd(TrimStart(s))

\* String.prototype.includes
includes(hay, needle) ==
    \E i \in 0..(Len(hay) - Len(needle)) :
        SubSeq(hay, i + 1, i + Len(needle)) = needle

\* normalizeText without the removal of the combining marks
normalizeTextKeepMarks(text) == trim(toLowerCase(NFD(text)))

normalizeText(text) == trim(toLowerCase(StripMarks(NFD(text))))

-----------------------------------------------------------------------------
(* String.prototype.localeCompare, as the default collation orders the     *)
(* model's alphabet: base letters first (white space before letters,       *)
(* marks ignored), then accents, then case (lower before upper).           *)

BaseLetter(c) == LowerChar(Head(Decompose(c)))

CharRank(c) ==
    IF \E i \in 1..26 : LowerCase[i] = c
    THEN CHOOSE i \in 1..26 : LowerCase[i] = c
    ELSE 0

PrimaryKey(s) ==
    LET t == SelectSeq(s, LAMBDA c : ~IsCombiningMark(c))
    IN  [i \in 1..Len(t) |-> CharRank(BaseLetter(t[i]))]

SecondaryKey(s) ==
    LET t == NFD(s)
    IN  [i \in 1..Len(t) |-> IF IsCombiningMark(t[i]) THEN 1 ELSE 0]

TertiaryKey(s) ==
    LET t == SelectSeq(s, LAMBDA c : ~IsCombiningMark(c))
    IN  [i \in 1..Len(t) |->
            IF IsUpper(Head(Decompose(t[i]))) THEN 1 ELSE 0]

RECURSIVE LexCompare(_, _)
LexCompare(a, b) ==
    IF a = <<>> /\ b = <<>> THEN 0
    ELSE IF a = <<>> THEN -1
    ELSE IF b = <<>> THEN 1
    ELSE IF Head(a) < Head(b) THEN -1
    ELSE IF Head(a) > Head(b) THEN 1
    ELSE LexCompare(Tail(a), Tail(b))

localeCompare(a, b) ==
    LET p == LexCompare(PrimaryKey(a), PrimaryKey(b))
        s == LexCompare(SecondaryKey(a), SecondaryKey(b))
    IN  IF p # 0 THEN p
        ELSE IF s # 0 THEN s
        ELSE LexCompare(TertiaryKey(a), TertiaryKey(b))

-----------------------------------------------------------------------------
(* Property bags.  Every bag is a record over the same keys; a key the     *)
(* object does not have holds Undefined.                                   *)

NoProps ==
    [atId |-> Undefined, name |-> Undefined, chpdeno |-> Undefined,
     chpadrs |-> Undefined, chplieu |-> Undefined, chptico |-> Undefined,
     historic |-> Undefined, display_type |-> Undefined,
     building |-> Undefined, military |-> Undefined,
     defence |-> Undefined, defense |-> Undefined,
     period |-> Undefined, chpreg |-> Undefined,
     wikidata |-> Undefined, wikipedia |-> Undefined,
     lastFetched |-> Undefined, description |-> Undefined,
     imageUrls |-> Undefined, imageSource |-> Undefined,
     externalLinks |-> Undefined, constructionStyle |-> Undefined]

\* a result not yet computed is Pending, a computed result r is Done(r)
Pending == {}
Done(r) == {r}
Result(x) == CHOOSE r \in x : TRUE

\* words used by the feeds and the searches
wCastle == <<"C","a","s","t","l","e">>
wcastle == <<"c","a","s","t","l","e">>
wChateauAcc == <<"C","h","a^","t","e","a","u">>
wchateau == <<"c","h","a","t","e","a","u">>
wForetAcc == <<"F","o","r","e^","t">>
wforet == <<"f","o","r","e","t">>
wForetNFD == <<"F","o","r","e","^","t">>
wfort == <<"f","o","r","t">>
wrue == <<"r","u","e">>
wBlank == <<" ", " ">>
wmedieval == <<"m","e","d">>
wBretagne == <<"B","z","h">>

-----------------------------------------------------------------------------
(* Search/filter evaluators *)

\* activeFilters.key / activeFilters[key]
Get(af, key) == IF key \in DOMAIN af THEN af[key] ELSE Undefined

\* fort.properties.name || fort.properties.chpdeno || ''
NameOf(fort) == Or(Or(fort.properties.name, fort.properties.chpdeno), <<>>)

\* fort.properties.chpadrs || fort.properties.chplieu || ''
AddressOf(fort) ==
    Or(Or(fort.properties.chpadrs, fort.properties.chplieu), <<>>)

IsNamed(fort) == trim(NameOf(fort)) # <<>>

TextMatch(fort, term) ==
    \/ includes(normalizeText(NameOf(fort)), normalizeText(term))
    \/ includes(normalizeText(AddressOf(fort)), normalizeText(term))

\* fort.properties.chptico || fort.properties.historic
FortTypeNoFallback(fort) == fort.properties.chptico
FortType(fort) == Or(fort.properties.chptico, fort.properties.historic)

\* the callback with each facet tested for presence of its key, so that a
\* null value is compared as well
MapKeepNullConstrains(fort, term, af) ==
    IF ~IsNamed(fort) THEN FALSE
    ELSE IF Truthy(term) /\ ~TextMatch(fort, term) THEN FALSE
    ELSE IF "type" \in DOMAIN af /\ FortType(fort) # af["type"]
         THEN FALSE
    ELSE IF "period" \in DOMAIN af
            /\ fort.properties.period # af["period"] THEN FALSE
    ELSE IF "region" \in DOMAIN af
            /\ fort.properties.chpreg # af["region"] THEN FALSE
    ELSE TRUE

\* the callback of the second fortifications.filter of FortificationMap
MapKeep(fort, term, af) ==
    IF ~IsNamed(fort) THEN FALSE
    ELSE IF Truthy(term) /\ ~TextMatch(fort, term) THEN FALSE
    ELSE IF Truthy(Get(af, "type")) /\ FortType(fort) # Get(af, "type")
         THEN FALSE
    ELSE IF Truthy(Get(af, "period"))
            /\ fort.properties.period # Get(af, "period") THEN FALSE
    ELSE IF Truthy(Get(af, "region"))
            /\ fort.properties.chpreg # Get(af, "region") THEN FALSE
    ELSE TRUE

MapFilterNoDefaultExclusion(forts, term, af) ==
    IF ~Truthy(term) /\ DOMAIN af = {}
    THEN forts
    ELSE SelectSeq(forts, LAMBDA f : MapKeep(f, term, af))

\* FortificationMap: filteredFortifications
MapFilter(forts, term, af) ==
    IF ~Truthy(term) /\ DOMAIN af = {}
    THEN SelectSeq(forts, IsNamed)
    ELSE SelectSeq(forts, LAMBDA f : MapKeep(f, term, af))

\* the callback without the branch for the region
SidebarFacetTypeOnly(fort, key, value) ==
    IF key = "type" THEN FortType(fort) = value
    ELSE TRUE

\* the callback of the per-entry filter of Sidebar
SidebarFacet(fort, key, value) ==
    IF key = "type" THEN FortType(fort) = value
    ELSE IF key = "region" THEN fort.properties.chpreg = value
    ELSE TRUE

RECURSIVE InsertSorted(_, _)
InsertSorted(sorted, f) ==
    IF sorted = <<>> THEN <<f>>
    ELSE IF localeCompare(NameOf(f), NameOf(sorted[Len(sorted)])) < 0
         THEN Append(InsertSorted(SubSeq(sorted, 1, Len(sorted) - 1), f),
                     sorted[Len(sorted)])
         ELSE Append(sorted, f)

\* filtered.sort((a, b) => nameA.localeCompare(nameB)), a stable sort
RECURSIVE SortByName(_)
SortByName(forts) ==
    IF forts = <<>> THEN <<>>
    ELSE InsertSorted(SortByName(SubSeq(forts, 1, Len(forts) - 1)),
                      forts[Len(forts)])

\* Array.prototype.filter: a new array, never the one it is called on
ArrayFilter(array, Keep(_)) ==
    [ref |-> "new", items |-> SelectSeq(array.items, Keep)]

\* the memo with `filtered` starting as the prop itself, the named filter
\* applied only when some feature is unnamed
SidebarMemoSortsProp(forts, term, af) ==
    LET prop == [ref |-> "prop", items |-> forts]
        namedFortifications ==
            IF \A i \in DOMAIN forts : IsNamed(forts[i]) THEN prop
            ELSE ArrayFilter(prop, IsNamed)
        searched == IF Truthy(term)
                    THEN ArrayFilter(namedFortifications,
                                     LAMBDA f : TextMatch(f, term))
                    ELSE namedFortifications
        filtered == IF \E key \in DOMAIN af : Truthy(af[key])
                    THEN ArrayFilter(searched, LAMBDA f :
                             \A key \in DOMAIN af :
                                 Truthy(af[key])
                                     => SidebarFacet(f, key, af[key]))
                    ELSE searched
        sorted == SortByName(filtered.items)
    IN  [returned |-> sorted,
         fortifications |-> IF filtered.ref = "prop" THEN sorted ELSE forts]

\* the useMemo callback of Sidebar with the arrays it goes through: the
\* prop fortifications, the arrays the filters make, and the one that
\* filtered.sort reorders in place.  `returned` is the memoised list,
\* `fortifications` the content of the prop after the callback.
SidebarMemo(forts, term, af) ==
    LET prop == [ref |-> "prop", items |-> forts]
        namedFortifications == ArrayFilter(prop, IsNamed)
        searched == IF Truthy(term)
                    THEN ArrayFilter(namedFortifications,
                                     LAMBDA f : TextMatch(f, term))
                    ELSE namedFortifications
        filtered == IF \E key \in DOMAIN af : Truthy(af[key])
                    THEN ArrayFilter(searched, LAMBDA f :
                             \A key \in DOMAIN af :
                                 Truthy(af[key])
                                     => SidebarFacet(f, key, af[key]))
                    ELSE searched
        sorted == SortByName(filtered.items)
    IN  [returned |-> sorted,
         fortifications |-> IF filtered.ref = "prop" THEN sorted ELSE forts]

\* Sidebar: filteredFortifications
SidebarFilter(forts, term, af) == SidebarMemo(forts, term, af).returned

-----------------------------------------------------------------------------
(* Inputs of the evaluators *)

Feat(id, props) == [id |-> id, properties |-> props]

\* features a feed can hold: normalised OSM features and legacy records
ViewPool ==
    { Feat(<<"1">>, [NoProps EXCEPT !.name = wChateauAcc,
                        !.historic = wcastle, !.display_type = wCastle,
                        !.atId = <<"n","/","1">>]),
      Feat(<<"2">>, [NoProps EXCEPT !.chpdeno = wForetNFD,
                        !.chptico = wCastle, !.chpadrs = wrue,
                        !.chpreg = wBretagne, !.period = wmedieval]),
      Feat(<<"3">>, [NoProps EXCEPT !.name = wBlank, !.chpdeno = wfort,
                        !.historic = wCastle, !.chplieu = wforet]),
      Feat(<<"4">>, [NoProps EXCEPT !.historic = wCastle,
                        !.chpadrs = wchateau, !.chpreg = wBretagne]),
      Feat(<<"5">>, [NoProps EXCEPT !.name = <<>>, !.chpdeno = <<>>,
                        !.chptico = wCastle, !.period = wmedieval]),
      Feat(<<"6">>, [NoProps EXCEPT !.name = wforet, !.chptico = <<>>,
                        !.historic = wCastle, !.chplieu = wChateauAcc,
                        !.period = wmedieval]),
      Feat(<<"7">>, [NoProps EXCEPT !.name = wfort, !.building = wCastle,
                        !.military = wCastle, !.chpreg = wBretagne]) }

RECURSIVE SeqsUpTo(_, _)
SeqsUpTo(S, n) ==
    IF n = 0 THEN {<<>>}
    ELSE LET shorter == SeqsUpTo(S, n - 1)
         IN  shorter \cup {Append(q, x) : q \in shorter, x \in S}

SearchTerms == {<<>>, <<" ">>, wchateau, wChateauAcc, wforet, wForetAcc}

Absent == <<"absent">>

\* the object holding exactly the facets that are not Absent
MkFilters(t, p, r, u) ==
    LET all == [type |-> t, period |-> p, region |-> r, era |-> u]
    IN  [k \in {key \in DOMAIN all : all[key] # Absent} |-> all[k]]

FilterObjects ==
    { MkFilters(t, p, r, u) :
        t \in {Absent, Null, wCastle, wcastle},
        p \in {Absent, wmedieval},
        r \in {Absent, Null, wBretagne},
        u \in {Absent, wrue} }

-----------------------------------------------------------------------------
(* Specification of the evaluators: the props are drawn, each view         *)
(* computes its memoised list.                                             *)

ConvIdle == osmElements = <<>> /\ converted = Pending

InitFilter ==
    /\ viewForts \in SeqsUpTo(ViewPool, MaxForts)
    /\ searchTerm \in SearchTerms
    /\ activeFilters \in FilterObjects
    /\ mapFiltered = Pending
    /\ sidebarFiltered = Pending
    /\ ConvIdle
    /\ HookIdle /\ revision = "useExternalData.ts"

RenderMap ==
    /\ mapFiltered = Pending
    /\ mapFiltered' = Done(MapFilter(viewForts, searchTerm, activeFilters))
    /\ UNCHANGED <<viewForts, searchTerm, activeFilters, sidebarFiltered>>
    /\ UNCHANGED <<convVars, hookVars>>

RenderSidebar ==
    /\ sidebarFiltered = Pending
    /\ sidebarFiltered' =
           Done(SidebarFilter(viewForts, searchTerm, activeFilters))
    /\ viewForts' =
           SidebarMemo(viewForts, searchTerm, activeFilters).fortifications
    /\ UNCHANGED <<searchTerm, activeFilters, mapFiltered>>
    /\ UNCHANGED <<convVars, hookVars>>

NextFilter == RenderMap \/ RenderSidebar

SpecFilter == InitFilter /\ [][NextFilter]_vars

-----------------------------------------------------------------------------
(* Properties of the evaluators *)

InList(f, list) == \E i \in DOMAIN list : list[i] = f

\* missing, empty or whitespace-only
Blank(v) == v = Undefined \/ v = Null \/ \A i \in DOMAIN v : v[i] = " "

Unnamed(f) == Blank(f.properties.name) /\ Blank(f.properties.chpdeno)

\* some facet holds a selected (non-null, non-empty) value
SomeFacetActive == \E k \in DOMAIN activeFilters : Truthy(activeFilters[k])

\* C2: a feature whose name and chpdeno are both missing, empty or
\* whitespace-only is in neither the map's visible list nor the Sidebar's
\* list, whatever the search term and the active filters are.
C2_UnnamedNeverVisible ==
    /\ mapFiltered # Pending =>
          \A i \in DOMAIN Result(mapFiltered) :
              ~Unnamed(Result(mapFiltered)[i])
    /\ sidebarFiltered # Pending =>
          \A i \in DOMAIN Result(sidebarFiltered) :
              ~Unnamed(Result(sidebarFiltered)[i])

\* with a search term and a facet active, both views have rendered a
\* non-empty list from a feed that holds an unnamed feature
C2_Witness ==
    /\ mapFiltered # Pending /\ sidebarFiltered # Pending
    /\ \E i \in DOMAIN viewForts : Unnamed(viewForts[i])
    /\ Result(mapFiltered) # <<>> /\ Result(sidebarFiltered) # <<>>
    /\ searchTerm # <<>> /\ SomeFacetActive

\* the expected normal form of the words in use: diacritics stripped,
\* lowercased, trimmed
Folded(s) ==
    CASE s = wChateauAcc -> wchateau
      [] s = wchateau -> wchateau
      [] s = wForetAcc -> wforet
      [] s = wForetNFD -> wforet
      [] s = wforet -> wforet
      [] s = wfort -> wfort
      [] s = wrue -> wrue
      [] s = wCastle -> wcastle
      [] s = <<" ">> -> <<>>
      [] s = wBlank -> <<>>
      [] s = <<>> -> <<>>

FirstNonEmpty2(a, b) == IF Truthy(a) THEN a ELSE IF Truthy(b) THEN b ELSE <<>>

\* the claim's text match, on the expected normal forms
ExpectedTextMatch(f) ==
    LET n == Folded(FirstNonEmpty2(f.properties.name, f.properties.chpdeno))
        a == Folded(FirstNonEmpty2(f.properties.chpadrs,
                                   f.properties.chplieu))
        t == Folded(searchTerm)
    IN  includes(n, t) \/ includes(a, t)

NamedFeature(f) ==
    ~Blank(FirstNonEmpty2(f.properties.name, f.properties.chpdeno))

\* C3: with a non-empty search term a named feature is visible on the map
\* only if the normalised term is a substring of its normalised name or
\* address, and it is visible whenever that holds and no facet is active.
C3_TextMatchAccentInsensitive ==
    (mapFiltered # Pending /\ searchTerm # <<>>) =>
        \A i \in DOMAIN viewForts :
            LET f == viewForts[i] IN
            NamedFeature(f) =>
                /\ InList(f, Result(mapFiltered)) => ExpectedTextMatch(f)
                /\ (ExpectedTextMatch(f) /\ ~SomeFacetActive)
                       => InList(f, Result(mapFiltered))

\* the search "chateau" has found the feature named "Cha^teau"
C3_Witness ==
    /\ mapFiltered # Pending
    /\ searchTerm = wchateau
    /\ \E i \in DOMAIN Result(mapFiltered) :
          Result(mapFiltered)[i].properties.name = wChateauAcc

OnlyTypeActive ==
    /\ Truthy(Get(activeFilters, "type"))
    /\ \A k \in DOMAIN activeFilters \ {"type"} : ~Truthy(activeFilters[k])

\* the resolution the claim describes: display_type, chptico, historic,
\* building, military, first non-empty wins
ClaimedResolvedType(f) ==
    LET p == f.properties
    IN  Or(Or(Or(Or(p.display_type, p.chptico), p.historic), p.building),
           p.military)

\* the resolution the evaluators use: chptico, else historic
ResolvedType(f) ==
    IF Truthy(f.properties.chptico) THEN f.properties.chptico
    ELSE f.properties.historic

\* resolved[i] is the resolved type of viewForts[i]
TypeFacetSelects(resolved, list) ==
    \A i \in DOMAIN viewForts :
        LET f == viewForts[i] IN
        NamedFeature(f) =>
            /\ InList(f, list) => resolved[i] = activeFilters["type"]
            /\ (resolved[i] = activeFilters["type"] /\ searchTerm = <<>>
                    /\ OnlyTypeActive) => InList(f, list)

ClaimedTypes == [i \in DOMAIN viewForts |-> ClaimedResolvedType(viewForts[i])]
ResolvedTypes == [i \in DOMAIN viewForts |-> ResolvedType(viewForts[i])]

\* C4 as claimed: the type facet compares the selected value with the first
\* non-empty of display_type, chptico, historic, building/military.
C4_Original_TypeFacetDisplayTypeFirst ==
    /\ (mapFiltered # Pending /\ Truthy(Get(activeFilters, "type"))) =>
          TypeFacetSelects(ClaimedTypes, Result(mapFiltered))
    /\ (sidebarFiltered # Pending /\ Truthy(Get(activeFilters, "type"))) =>
          TypeFacetSelects(ClaimedTypes, Result(sidebarFiltered))

\* C4 (amended): when the type facet is active a named feature passes only
\* if the first non-empty of chptico, historic equals the selected value
\* exactly, and with an empty search and no other facet it passes exactly
\* then; display_type, building and military are not consulted.
C4_TypeFacetChpticoThenHistoric ==
    /\ (mapFiltered # Pending /\ Truthy(Get(activeFilters, "type"))) =>
          TypeFacetSelects(ResolvedTypes, Result(mapFiltered))
    /\ (sidebarFiltered # Pending /\ Truthy(Get(activeFilters, "type"))) =>
          TypeFacetSelects(ResolvedTypes, Result(sidebarFiltered))

\* {type: "Castle"} with an empty search has selected a feature by its
\* historic tag and left out the normalised feature with historic "castle"
\* and display_type "Castle"
C4_Witness ==
    /\ mapFiltered # Pending /\ sidebarFiltered # Pending
    /\ searchTerm = <<>> /\ OnlyTypeActive
    /\ activeFilters["type"] = wCastle
    /\ \E i \in DOMAIN viewForts :
          /\ viewForts[i].properties.display_type = wCastle
          /\ viewForts[i].properties.historic = wcastle
          /\ ~InList(viewForts[i], Result(mapFiltered))
    /\ \E i \in DOMAIN Result(mapFiltered) :
          /\ ~Truthy(Result(mapFiltered)[i].properties.chptico)
          /\ Result(mapFiltered)[i].properties.historic = wCastle

-----------------------------------------------------------------------------
(* convertOSMToGeoJSON *)

fortificationTags ==
    << <<"c","a","s","t","l","e">>,
       <<"f","o","r","t">>,
       <<"b","u","n","k","e","r">>,
       <<"f","o","r","t","i","f","i","c","a","t","i","o","n">>,
       <<"f","o","r","t","r","e","s","s">>,
       <<"c","i","t","a","d","e","l">>,
       <<"b","a","s","t","i","o","n">>,
       <<"b","a","t","t","e","r","y">>,
       <<"p","a","l","a","c","e">>,
       <<"c","h","a","t","e","a","u">>,
       <<"t","o","w","e","r">>,
       <<"m","a","n","s","i","o","n">> >>

\* in the order of the object literal, which Object.entries follows
typeMapping ==
    << <<<<"c","a","s","t","l","e">>,
          <<"C","a","s","t","l","e">>>>,
       <<<<"f","o","r","t">>,
          <<"F","o","r","t">>>>,
       <<<<"f","o","r","t","r","e","s","s">>,
          <<"F","o","r","t","r","e","s","s">>>>,
       <<<<"b","u","n","k","e","r">>,
          <<"B","u","n","k","e","r">>>>,
       <<<<"f","o","r","t","i","f","i","c","a","t","i","o","n">>,
          <<"F","o","r","t","i","f","i","c","a","t","i","o","n">>>>,
       <<<<"c","i","t","a","d","e","l">>,
          <<"C","i","t","a","d","e","l">>>>,
       <<<<"b","a","s","t","i","o","n">>,
          <<"B","a","s","t","i","o","n">>>>,
       <<<<"b","a","t","t","e","r","y">>,
          <<"B","a","t","t","e","r","y">>>>,
       <<<<"p","a","l","a","c","e">>,
          <<"P","a","l","a","c","e">>>>,
       <<<<"c","h","a","t","e","a","u">>,
          <<"C","h","a^","t","e","a","u">>>>,
       <<<<"t","o","w","e","r">>,
          <<"T","o","w","e","r">>>>,
       <<<<"m","a","n","s","i","o","n">>,
          <<"M","a","n","s","i","o","n">>>> >>

wbunker == fortificationTags[3]
wfortress == fortificationTags[5]
wBunker == typeMapping[4][2]
wFortress == typeMapping[3][2]

\* an element without a tag mapping
NoTags == [undefined |-> TRUE]

Digits == <<"0","1","2","3","4","5","6","7","8","9">>

\* Number.prototype.toString of a non-negative integer
RECURSIVE NumberToString(_)
NumberToString(n) ==
    IF n < 10 THEN <<Digits[n + 1]>>
    ELSE NumberToString(n \div 10) \o <<Digits[(n % 10) + 1]>>

\* the criteria with the military value searched for the words, as the
\* historic value is
IsFortificationMilitarySubstring(element) ==
    IF element.tags = NoTags THEN FALSE
    ELSE LET tags == element.tags
             isHistoric ==
                 /\ Truthy(tags.historic)
                 /\ \E i \in DOMAIN fortificationTags :
                       includes(toLowerCase(tags.historic),
                                toLowerCase(fortificationTags[i]))
             isMilitary ==
                 /\ Truthy(tags.military)
                 /\ \E w \in {wbunker, wfortress} :
                       includes(toLowerCase(tags.military), w)
             hasDefenceTag == Truthy(Or(tags.defence, tags.defense))
         IN  isHistoric \/ isMilitary \/ hasDefenceTag

\* the callback of the first filter: the fortification criteria
IsFortification(element) ==
    IF element.tags = NoTags THEN FALSE
    ELSE LET tags == element.tags
             isHistoric ==
                 /\ Truthy(tags.historic)
                 /\ \E i \in DOMAIN fortificationTags :
                       includes(toLowerCase(tags.historic),
                                toLowerCase(fortificationTags[i]))
             isMilitary ==
                 /\ Truthy(tags.military)
                 /\ toLowerCase(tags.military) \in {wbunker, wfortress}
             hasDefenceTag == Truthy(Or(tags.defence, tags.defense))
         IN  isHistoric \/ isMilitary \/ hasDefenceTag

PlaceholderGeometry == [type |-> "Point", coordinates |-> <<0, 0>>]

GeometryOfAnyType(element) ==
    IF NumTruthy(element.lat) /\ NumTruthy(element.lon)
    THEN [type |-> "Point",
          coordinates |-> <<NumVal(element.lon), NumVal(element.lat)>>]
    ELSE PlaceholderGeometry

\* the geometry branch of the map callback
GeometryOf(element) ==
    IF element.type = <<"n","o","d","e">>
       /\ NumTruthy(element.lat) /\ NumTruthy(element.lon)
    THEN [type |-> "Point",
          coordinates |-> <<NumVal(element.lon), NumVal(element.lat)>>]
    ELSE PlaceholderGeometry

\* the first entry of typeMapping whose key the lowercased historic value
\* contains, 0 when there is none
FirstMappingMatch(historicLower) ==
    IF \E i \in DOMAIN typeMapping : includes(historicLower, typeMapping[i][1])
    THEN CHOOSE i \in DOMAIN typeMapping :
            /\ includes(historicLower, typeMapping[i][1])
            /\ \A j \in 1..(i - 1) :
                   ~includes(historicLower, typeMapping[j][1])
    ELSE 0

\* the display_type steps of the map callback
\* the display_type steps without the step for military structures
DisplayTypeOfNoMilitary(tags) ==
    LET fromTags == tags.display_type
        m == IF Truthy(tags.historic)
             THEN FirstMappingMatch(toLowerCase(tags.historic)) ELSE 0
        afterScan == IF m # 0 THEN typeMapping[m][2] ELSE fromTags
    IN  IF ~Truthy(afterScan) /\ Truthy(tags.historic)
        THEN tags.historic ELSE afterScan

DisplayTypeOf(tags) ==
    LET fromTags == tags.display_type
        m == IF Truthy(tags.historic)
             THEN FirstMappingMatch(toLowerCase(tags.historic)) ELSE 0
        afterScan == IF m # 0 THEN typeMapping[m][2] ELSE fromTags
        afterHistoric == IF ~Truthy(afterScan) /\ Truthy(tags.historic)
                         THEN tags.historic ELSE afterScan
    IN  IF ~Truthy(afterHistoric) /\ Truthy(tags.military)
        THEN IF toLowerCase(tags.military) = wbunker THEN wBunker
             ELSE IF toLowerCase(tags.military) = wfortress THEN wFortress
             ELSE afterHistoric
        ELSE afterHistoric

\* the map callback with the element's own '@id' tag kept
ToFeatureKeepsAtId(element) ==
    [type |-> "Feature",
     id |-> NumberToString(element.id),
     geometry |-> GeometryOf(element),
     properties |->
        [element.tags EXCEPT
            !.atId = IF @ # Undefined THEN @
                     ELSE element.type \o <<"/">> \o NumberToString(element.id),
            !.display_type = DisplayTypeOf(element.tags)]]

\* the map callback
ToFeature(element) ==
    [type |-> "Feature",
     id |-> NumberToString(element.id),
     geometry |-> GeometryOf(element),
     properties |->
        [element.tags EXCEPT
            !.atId = element.type \o <<"/">> \o NumberToString(element.id),
            !.display_type = DisplayTypeOf(element.tags)]]

\* the callback of the last filter: not the placeholder
HasValidGeometry(feature) ==
    ~(/\ feature.geometry.type = "Point"
      /\ feature.geometry.coordinates[1] = 0
      /\ feature.geometry.coordinates[2] = 0)

\* elements.filter(...).map(...)
ToFeatures(elements) ==
    LET kept == SelectSeq(elements, IsFortification)
    IN  [i \in DOMAIN kept |-> ToFeature(kept[i])]

convertKeepPlaceholders(elements) == ToFeatures(elements)

convertOSMToGeoJSON(elements) ==
    SelectSeq(ToFeatures(elements), HasValidGeometry)

-----------------------------------------------------------------------------
(* Specification of the normaliser: an elements-shape document is drawn    *)
(* and converted.                                                          *)

wnode == <<"n","o","d","e">>
wway == <<"w","a","y">>
wrelation == <<"r","e","l","a","t","i","o","n">>
wyes == <<"y","e","s">>

Elem(type, id, lat, lon, tags) ==
    [type |-> type, id |-> id, lat |-> lat, lon |-> lon, tags |-> tags]

\* tag mappings of the feed
TagPool ==
    { NoTags,
      [NoProps EXCEPT !.historic = wcastle,
                      !.name = <<"T","e","s","t">>],
      [NoProps EXCEPT !.historic = <<"F","o","r","t","r","e","s","s">>,
                      !.atId = <<"x">>],
      [NoProps EXCEPT !.historic = wyes, !.military = <<"B","u","n","k","e","r">>],
      [NoProps EXCEPT !.historic = wyes, !.defence = wyes],
      [NoProps EXCEPT !.name = wfort, !.defense = <<>>],
      [NoProps EXCEPT !.military = <<"b","u","n","k","e","r","s">>],
      [NoProps EXCEPT !.historic = <<"O","l","d","F","O","R","T">>],
      [NoProps EXCEPT !.historic = <<"r","u","i","n","s">>],
      [NoProps EXCEPT !.military = <<"F","O","R","T","R","E","S","S">>],
      [NoProps EXCEPT !.historic = wcastle, !.display_type = wyes],
      [NoProps EXCEPT !.defence = wyes],
      [NoProps EXCEPT !.historic = <<>>, !.military = wbunker],
      [NoProps EXCEPT !.military = <<"b","u","n","k","e","r","s">>,
                      !.defense = wyes],
      [NoProps EXCEPT !.historic = wyes, !.display_type = wrue,
                      !.defence = wyes] }

\* lat/lon pairs: both, one of them zero, both zero, one or both missing
LatLonPool ==
    { <<Num(48), Num(2)>>, <<Num(0), Num(2)>>, <<Num(48), Num(0)>>,
      <<Num(0), Num(0)>>, <<NoNum, NoNum>>, <<Num(48), NoNum>> }

ElementPool ==
    { Elem(t, i, ll[1], ll[2], tg) :
        t \in {wnode, wway, wrelation}, i \in {1, 20},
        ll \in LatLonPool, tg \in TagPool }

\* elements that follow the first one in a drawn document
TailPool ==
    { Elem(wnode, 3, Num(48), Num(2), [NoProps EXCEPT !.historic = wcastle]),
      Elem(wway, 4, NoNum, NoNum, [NoProps EXCEPT !.historic = wcastle]),
      Elem(wnode, 5, Num(0), Num(0), [NoProps EXCEPT !.defence = wyes]) }

OsmInputs ==
    {<<>>} \cup { <<e>> \o rest : e \in ElementPool,
                                 rest \in SeqsUpTo(TailPool, MaxElements - 1) }

ViewIdle ==
    /\ viewForts = <<>> /\ searchTerm = <<>> /\ activeFilters = <<>>
    /\ mapFiltered = Pending /\ sidebarFiltered = Pending

InitConvert ==
    /\ osmElements \in OsmInputs
    /\ converted = Pending
    /\ ViewIdle
    /\ HookIdle /\ revision = "useExternalData.ts"

Convert ==
    /\ converted = Pending
    /\ converted' = Done(convertOSMToGeoJSON(osmElements))
    /\ UNCHANGED osmElements
    /\ UNCHANGED <<viewVars, hookVars>>

NextConvert == Convert

SpecConvert == InitConvert /\ [][NextConvert]_vars

\* C1: the output of convertOSMToGeoJSON holds no Point at exactly [0,0],
\* and no feature of a way or relation element or of an element whose
\* latitude or longitude is missing.
C1_NoPlaceholderInOutput ==
    converted # Pending =>
        \A i \in DOMAIN Result(converted) :
            LET f == Result(converted)[i] IN
            /\ ~(f.geometry.type = "Point" /\ f.geometry.coordinates = <<0, 0>>)
            /\ \A j \in DOMAIN osmElements :
                  LET e == osmElements[j] IN
                  (e.type # wnode \/ e.lat = NoNum \/ e.lon = NoNum)
                      => f.id # NumberToString(e.id)

\* a document holding a tagged way that carries lat/lon, followed by a
\* tagged node, has been converted: the node was kept, the way was not
C1_Witness ==
    /\ converted # Pending
    /\ Len(osmElements) = 2
    /\ Len(Result(converted)) = 1
    /\ osmElements[1].type = wway
    /\ IsFortification(osmElements[1])
    /\ NumTruthy(osmElements[1].lat) /\ NumTruthy(osmElements[1].lon)
    /\ Result(converted)[1].id = NumberToString(osmElements[2].id)

-----------------------------------------------------------------------------
(* generateFilters *)

\* the values of q in first-seen order, as a Map keeps its keys
RECURSIVE Distinct(_)
Distinct(q) ==
    IF q = <<>> THEN <<>>
    ELSE LET init == Distinct(SubSeq(q, 1, Len(q) - 1))
             last == q[Len(q)]
         IN  IF \E i \in DOMAIN init : init[i] = last THEN init
             ELSE Append(init, last)

Count(q, v) == Cardinality({i \in DOMAIN q : q[i] = v})

RECURSIVE InsertByCount(_, _)
InsertByCount(sorted, o) ==
    IF sorted = <<>> THEN <<o>>
    ELSE IF sorted[Len(sorted)].count < o.count
         THEN Append(InsertByCount(SubSeq(sorted, 1, Len(sorted) - 1), o),
                     sorted[Len(sorted)])
         ELSE Append(sorted, o)

\* the options left in the order of the Map
KeepInsertionOrder(options) == options

\* options.sort((a, b) => b.count - a.count), a stable sort
RECURSIVE SortByCount(_)
SortByCount(options) ==
    IF options = <<>> THEN <<>>
    ELSE InsertByCount(SortByCount(SubSeq(options, 1, Len(options) - 1)),
                       options[Len(options)])

\* the options of one group from the values collected for it
OptionsOf(values) ==
    LET keys == Distinct(values)
    IN  SortByCount([i \in DOMAIN keys |->
            [label |-> keys[i], value |-> keys[i],
             count |-> Count(values, keys[i])]])

wUnknown == <<"U","n","k","n","o","w","n">>

\* every group returned, the empty ones too
generateFiltersAllGroups(forts) ==
    LET types == [i \in DOMAIN forts |->
                     Or(Or(forts[i].chptico, forts[i].historic), wUnknown)]
        withPeriod == SelectSeq(forts, LAMBDA b : Truthy(b.period))
        periods == [i \in DOMAIN withPeriod |-> withPeriod[i].period]
        withRegion == SelectSeq(forts, LAMBDA b : Truthy(b.chpreg))
        regions == [i \in DOMAIN withRegion |-> withRegion[i].chpreg]
    IN  <<[id |-> "type", name |-> "Type", options |-> OptionsOf(types)],
          [id |-> "period", name |-> "Period", options |-> OptionsOf(periods)],
          [id |-> "region", name |-> "Region", options |-> OptionsOf(regions)]>>

\* forts is a sequence of property bags
generateFilters(forts) ==
    LET types == [i \in DOMAIN forts |->
                     Or(Or(forts[i].chptico, forts[i].historic), wUnknown)]
        withPeriod == SelectSeq(forts, LAMBDA b : Truthy(b.period))
        periods == [i \in DOMAIN withPeriod |-> withPeriod[i].period]
        withRegion == SelectSeq(forts, LAMBDA b : Truthy(b.chpreg))
        regions == [i \in DOMAIN withRegion |-> withRegion[i].chpreg]
        typeFilter == [id |-> "type", name |-> "Type",
                       options |-> OptionsOf(types)]
        periodFilter == [id |-> "period", name |-> "Period",
                         options |-> OptionsOf(periods)]
        regionFilter == [id |-> "region", name |-> "Region",
                         options |-> OptionsOf(regions)]
    IN  <<typeFilter>>
        \o (IF periodFilter.options # <<>> THEN <<periodFilter>> ELSE <<>>)
        \o (IF regionFilter.options # <<>> THEN <<regionFilter>> ELSE <<>>)

-----------------------------------------------------------------------------
(* Features of the hook state.  A feature object holds a reference to its  *)
(* property bag: `properties` is a key of heap, or NoBag when the feature  *)
(* has no properties object.                                               *)

NoBag == 0

\* one hour of the clock as the string toISOString gives, and Date parsing:
\* the set is empty for a string that is no date (Invalid Date)
toISOString(t) == <<"T", t>>
DateParse(str) == IF Len(str) = 2 /\ str[1] = "T" THEN {str[2]} ELSE {}

\* hours between now and the same local wall-clock time on the previous
\* calendar day: setDate(getDate() - 1) works on the local calendar, so a
\* daylight-saving change in between makes it 23 or 25
DayLengths == {23, 24, 25}

\* lastFetched > oneDayAgo, NaN comparing false
IsFresh(lastFetched, dayLength) ==
    /\ Truthy(lastFetched)
    /\ DateParse(lastFetched) # {}
    /\ NumVal(DateParse(lastFetched)) > now - dayLength

\* the bags of a list of features
Deref(list) == [i \in DOMAIN list |-> heap[list[i].properties]]

\* fort.properties.chptico of a feature without properties is a TypeError
generateFiltersThrows(list) ==
    \E i \in DOMAIN list : list[i].properties = NoBag

-----------------------------------------------------------------------------
(* The feed *)

PointAt(lon, lat) == [type |-> "Point", coordinates |-> <<lon, lat>>]

\* a feature of a parsed document: its properties are a value, or NoTags
\* when the key is missing
DocFeat(id, props) ==
    [type |-> "Feature", id |-> id, geometry |-> PointAt(2, 48),
     properties |-> props]

wQ1 == <<"Q","1">>
wfrX == <<"f","r",":","X">>

\* features met alone in a document
RichPool ==
    { DocFeat(<<"1">>, [NoProps EXCEPT !.name = wfort, !.wikidata = wQ1,
                           !.wikipedia = wfrX, !.historic = wcastle]),
      DocFeat(<<"1">>, [NoProps EXCEPT !.name = wfort, !.wikidata = wQ1,
                           !.lastFetched = toISOString(0 - 2)]),
      DocFeat(<<"1">>, [NoProps EXCEPT !.wikidata = wQ1,
                           !.lastFetched = toISOString(0 - 23)]),
      DocFeat(<<"1">>, [NoProps EXCEPT !.wikidata = wQ1,
                           !.lastFetched = toISOString(0 - 24)]),
      DocFeat(<<"1">>, [NoProps EXCEPT !.wikipedia = wfrX,
                           !.lastFetched = toISOString(0 - 25),
                           !.imageUrls = <<"old.jpg">>,
                           !.externalLinks = <<"Old link">>,
                           !.description = wrue]),
      DocFeat(Undefined, [NoProps EXCEPT !.atId = <<"1">>,
                           !.lastFetched = <<"x">>, !.chpreg = wBretagne]) }

\* features met together in a document; the second one carries the id of
\* the first one as its '@id', the third one has no properties
PairPool ==
    { DocFeat(<<"1">>, [NoProps EXCEPT !.name = wfort, !.wikidata = wQ1,
                           !.historic = wcastle]),
      DocFeat(<<"2">>, [NoProps EXCEPT !.atId = <<"1">>,
                           !.wikipedia = wfrX, !.chptico = wCastle]),
      DocFeat(<<"3">>, NoTags) }

FeatureLists ==
    { <<f>> : f \in RichPool }
    \cup { l \in SeqsUpTo(PairPool, MaxForts) :
              /\ Len(l) >= 2
              /\ \A i, j \in DOMAIN l : i # j => l[i] # l[j] }

OsmDocs ==
    { <<Elem(wnode, 1, Num(48), Num(2),
             [NoProps EXCEPT !.historic = wcastle, !.wikidata = wQ1]),
        Elem(wway, 2, NoNum, NoNum, [NoProps EXCEPT !.historic = wcastle])>> }

\* parsed documents: a key the document does not have is Pending
Doc(type, features, elements) ==
    [type |-> type, features |-> features, elements |-> elements]

Docs ==
    { Doc("FeatureCollection", Done(l), Pending) : l \in FeatureLists }
    \cup { Doc("", Pending, Done(e)) : e \in OsmDocs }
    \cup { Doc("FeatureCollection", Done(<<>>), Done(e)) : e \in OsmDocs }
    \cup { Doc("FeatureCollection", Done(<<f>>), Done(e)) :
              f \in {g \in RichPool : g.properties.chpreg = wBretagne},
              e \in OsmDocs }
    \cup { Doc("FeatureCollection", Pending, Pending),
           Doc("Topology", Done(<<>>), Pending),
           Doc("", Pending, Pending) }

\* what the fetch of the feed can come to
LoadOutcomes ==
    { [kind |-> k, data |-> Doc("", Pending, Pending)] :
        k \in {"networkError", "httpError", "invalidJson", "nullJson"} }
    \cup { [kind |-> "json", data |-> doc] : doc \in Docs }

-----------------------------------------------------------------------------
(* useGeoJSON: the load effect and retry *)

Running == {p \in DOMAIN enr : enr[p].pc \notin {"idle", "returned"}}

\* bags an enrichment in flight can still reach through its captured list
ReachableBags ==
    UNION { {enr[p].snap[i].properties : i \in DOMAIN enr[p].snap} :
            p \in Running }

\* bag ids above the ones in use
FreeFrom ==
    IF ReachableBags \ {NoBag} = {} THEN 0
    ELSE CHOOSE b \in ReachableBags : \A c \in ReachableBags : c <= b

\* the features of a settled load become objects with fresh property bags
Allocate(features, base) ==
    [i \in DOMAIN features |->
        [features[i] EXCEPT !.properties =
            IF features[i].properties = NoTags THEN NoBag ELSE base + i]]

NewBags(features, base) ==
    [b \in {base + i : i \in {j \in DOMAIN features :
                                 features[j].properties # NoTags}}
        |-> features[b - base].properties]

\* heap after the allocation; bags nothing refers to any more are dropped
HeapWith(newBags) ==
    [b \in (DOMAIN newBags) \cup (ReachableBags \ {NoBag}) |->
        IF b \in DOMAIN newBags THEN newBags[b] ELSE heap[b]]

\* the effect: runs on mount and whenever jsonPath changes
LoadEffect ==
    /\ loadsStarted < MaxLoads
    /\ loadsStarted' = loadsStarted + 1
    /\ pendingLoads' = pendingLoads + 1
    /\ loading' = TRUE
    /\ error' = "null"
    /\ op' = [name |-> "loadEffect"]
    /\ UNCHANGED <<fortifications, filters, isDataEnriched, heap, enr,
                   extLoading, extError, revision, now>>
    /\ UNCHANGED <<viewVars, convVars>>

\* the error loadGeoJSON catches for an outcome, "null" when there is none
\* before the document is looked at
FetchError(outcome) ==
    CASE outcome.kind = "networkError" -> "TypeError: Failed to fetch"
      [] outcome.kind = "httpError" -> "Error: Failed to fetch GeoJSON"
      [] outcome.kind = "invalidJson" -> "SyntaxError"
      [] outcome.kind = "nullJson" -> "TypeError"
      [] OTHER -> "null"

LoadFailsClearsList(outcome, err) ==
    /\ error' = err
    /\ loading' = FALSE
    /\ fortifications' = <<>>
    /\ filters' = <<>>
    /\ UNCHANGED heap

\* catch and finally of loadGeoJSON when nothing was set before the throw
LoadFails(outcome, err) ==
    /\ error' = err
    /\ loading' = FALSE
    /\ UNCHANGED <<fortifications, filters, heap>>

\* the continuation of loadGeoJSON after its fetch has settled
LoadSettle(outcome) ==
    /\ pendingLoads > 0
    /\ pendingLoads' = pendingLoads - 1
    /\ op' = [name |-> "loadSettle", outcome |-> outcome.kind,
              type |-> outcome.data.type,
              features |-> outcome.data.features,
              hasFeatures |-> outcome.data.features # Pending,
              hasElements |-> outcome.data.elements # Pending]
    /\ LET data == outcome.data
           base == FreeFrom
       IN  IF FetchError(outcome) # "null"
           THEN LoadFails(outcome, FetchError(outcome))
           ELSE IF data.type = "FeatureCollection" /\ data.features # Pending
           THEN LET list == Allocate(Result(data.features), base)
                    bags == NewBags(Result(data.features), base)
                IN  /\ fortifications' = list
                    /\ heap' = HeapWith(bags)
                    /\ loading' = FALSE
                    /\ IF generateFiltersThrows(list)
                       THEN error' = "TypeError" /\ UNCHANGED filters
                       ELSE /\ filters' = generateFilters(
                                   [i \in DOMAIN list |->
                                       bags[list[i].properties]])
                            /\ UNCHANGED error
           ELSE IF data.elements # Pending
           THEN LET feats == convertOSMToGeoJSON(Result(data.elements))
                    list == Allocate(feats, base)
                    bags == NewBags(feats, base)
                IN  /\ fortifications' = list
                    /\ heap' = HeapWith(bags)
                    /\ loading' = FALSE
                    /\ filters' = generateFilters(
                           [i \in DOMAIN list |-> bags[list[i].properties]])
                    /\ UNCHANGED error
           ELSE LoadFails(outcome,
                          "Error: Unrecognized data format in GeoJSON file")
    /\ UNCHANGED <<isDataEnriched, loadsStarted, enr, extLoading, extError,
                   revision, now>>
    /\ UNCHANGED <<viewVars, convVars>>

\* retry: only the two setters; none of the effect's dependencies changes
retry ==
    /\ loading' = TRUE
    /\ error' = "null"
    /\ op' = [name |-> "retry"]
    /\ UNCHANGED <<fortifications, filters, isDataEnriched, heap,
                   pendingLoads, loadsStarted, enr, extLoading, extError,
                   revision, now>>
    /\ UNCHANGED <<viewVars, convVars>>

-----------------------------------------------------------------------------
(* useExternalData: the fetch helpers.  Each takes what the network did    *)
(* and gives what the helper returns to enrichFortification.               *)

Revisions == {"useExternalData.ts", "part_004"}

FetchFailures == {"networkError", "httpError", "invalidJson"}

WikidataOutcomes == FetchFailures \cup {"nullJson", "noEntity",
                                        "malformedClaims", "claims"}

wgoogle == <<"g","o","o","g","l","e">>
wwikipedia == <<"w","i","k","i","p","e","d","i","a">>
wgothic == <<"g","o","t","h">>
wextract == <<"e","x","t","r">>

\* fetchWikidataData: {} on a failure, the parsed body otherwise; of the
\* body the model keeps the values of the P2348 and P149 claims of the
\* entity
fetchWikidataData(outcome) ==
    CASE outcome \in FetchFailures -> [kind |-> "object", entity |-> FALSE,
                                       period |-> Undefined,
                                       style |-> Undefined]
      [] outcome = "nullJson" -> [kind |-> "null", entity |-> FALSE,
                                  period |-> Undefined, style |-> Undefined]
      [] outcome = "noEntity" -> [kind |-> "object", entity |-> FALSE,
                                  period |-> Undefined, style |-> Undefined]
      [] outcome = "malformedClaims" -> [kind |-> "object", entity |-> TRUE,
                                  period |-> Undefined, style |-> Undefined]
      [] outcome = "claims" -> [kind |-> "object", entity |-> TRUE,
                                period |-> wmedieval, style |-> wgothic]

WikipediaOutcomes == FetchFailures \cup {"nullJson", "summary", "pages"}

\* fetchWikipediaData: {} on a failure, the parsed body otherwise; "summary"
\* is a body without query.pages; thumbnail holds the thumbnail source,
\* if there is one
fetchWikipediaData(outcome) ==
    CASE outcome \in FetchFailures \cup {"summary"} ->
             [kind |-> "object", pages |-> FALSE,
              extract |-> Undefined, thumbnail |-> <<>>]
      [] outcome = "nullJson" ->
             [kind |-> "null", pages |-> FALSE,
              extract |-> Undefined, thumbnail |-> <<>>]
      [] outcome = "pages" ->
             [kind |-> "object", pages |-> TRUE,
              extract |-> wextract, thumbnail |-> <<"thumb.jpg">>]

WpImagesOutcomes == FetchFailures \cup {"nullJson", "noImages",
                                        "imageInfoError", "images"}

\* fetchWikipediaImages: every failure is caught inside and gives []
fetchWikipediaImages(outcome) ==
    IF outcome = "images" THEN <<"wp1.jpg", "wp2.jpg">> ELSE <<>>

GoogleOutcomes == FetchFailures \cup {"noResults", "found"}

FallbackImages ==
    <<"Chateau_de_Bonaguil.jpg", "Maginot_Line_Fort_Hackenberg.jpg",
      "Fort_Boyard.jpg", "Tour_Vauban_de_Camaret.jpg",
      "Fortifications_Vauban.jpg">>

\* fetchGoogleImages (part_004): the Commons results, else the preset list
fetchGoogleImages(outcome) ==
    IF outcome = "found" THEN <<"commons1.jpg">> ELSE FallbackImages

-----------------------------------------------------------------------------
(* enrichSingleFortification and enrichFortification.  enr[p] is one call  *)
(* of enrichSingleFortification: its captured list (snap), the index it    *)
(* found, and where enrichFortification is waiting (pc).  The fields       *)
(* fortId, before, startedAt and issued record the call for the            *)
(* properties: the argument, the bag's content and the clock at the call,  *)
(* and the lookups issued so far.                                          *)

FortIds == {<<"1">>, <<"2">>, <<"9">>}

\* findIndex stops at the first element whose id matches, or whose
\* properties['@id'] is read: that read throws on a feature without
\* properties, and matches or not otherwise
ProbeStops(list, i, fortId) ==
    \/ list[i].id = fortId
    \/ list[i].properties = NoBag
    \/ heap[list[i].properties].atId = fortId

\* the last element at which the probe stops, instead of the first
findLastIndex(list, fortId) ==
    IF \A i \in DOMAIN list : ~ProbeStops(list, i, fortId) THEN 0
    ELSE LET k == CHOOSE i \in DOMAIN list :
                     /\ ProbeStops(list, i, fortId)
                     /\ \A j \in (i + 1)..Len(list) :
                            ~ProbeStops(list, j, fortId)
         IN  IF list[k].id # fortId /\ list[k].properties = NoBag
             THEN 0 ELSE k

\* 0 when findIndex returns -1 or throws
findIndex(list, fortId) ==
    IF \A i \in DOMAIN list : ~ProbeStops(list, i, fortId) THEN 0
    ELSE LET k == CHOOSE i \in DOMAIN list :
                     /\ ProbeStops(list, i, fortId)
                     /\ \A j \in 1..(i - 1) : ~ProbeStops(list, j, fortId)
         IN  IF list[k].id # fortId /\ list[k].properties = NoBag
             THEN 0 ELSE k

\* the steps of a call that goes straight to the stamp when another call is
\* under way
NextStepSkipsWhenBusy(after, bag) ==
    IF after = "start" /\ Running # {} THEN "stamp"
    ELSE
        CASE after = "start" /\ revision = "part_004" -> "images"
          [] after \in {"start", "images"} /\ ~(after = "start"
                                               /\ revision = "part_004") ->
                 IF Truthy(bag.wikidata) THEN "wikidata"
                 ELSE IF Truthy(bag.wikipedia) THEN "wikipedia"
                 ELSE "stamp"
          [] after = "wikidata" ->
                 IF Truthy(bag.wikipedia) THEN "wikipedia" ELSE "stamp"
          [] after = "wikipedia" -> "wpImages"
          [] after = "wpImages" -> "stamp"

\* the step enrichFortification takes next, after the step named
NextStep(after, bag) ==
    CASE after = "start" /\ revision = "part_004" -> "images"
      [] after \in {"start", "images"} /\ ~(after = "start"
                                           /\ revision = "part_004") ->
             IF Truthy(bag.wikidata) THEN "wikidata"
             ELSE IF Truthy(bag.wikipedia) THEN "wikipedia"
             ELSE "stamp"
      [] after = "wikidata" ->
             IF Truthy(bag.wikipedia) THEN "wikipedia" ELSE "stamp"
      [] after = "wikipedia" -> "wpImages"
      [] after = "wpImages" -> "stamp"

TargetBag(p) == enr[p].snap[enr[p].index].properties

\* the bag b is left as `bag`; enrichFortification either awaits its next
\* lookup or stamps lastFetched and returns
Continue(p, b, bag, after) ==
    LET next == NextStep(after, bag)
    IN  IF next = "stamp"
        THEN /\ heap' = [heap EXCEPT ![b] =
                            [bag EXCEPT !.lastFetched = toISOString(now)]]
             /\ enr' = [enr EXCEPT ![p].pc = "resolved"]
             /\ extLoading' = FALSE
        ELSE /\ heap' = [heap EXCEPT ![b] = bag]
             /\ enr' = [enr EXCEPT ![p].pc = next,
                                   ![p].issued = @ \cup {next}]
             /\ extLoading' = TRUE

\* the top-level catch: the error is set and the original fort returned
Caught(p) ==
    /\ extError' = "TypeError"
    /\ extLoading' = FALSE
    /\ enr' = [enr EXCEPT ![p].pc = "resolved"]
    /\ UNCHANGED heap

\* a call that has returned
Returned == [pc |-> "returned"]

LowestIdle(p) ==
    /\ enr[p].pc = "idle"
    /\ \A q \in 1..(p - 1) : enr[q].pc # "idle"

Call(fortId, index) ==
    [pc |-> "start", fortId |-> fortId, snap |-> fortifications,
     index |-> index, startedAt |-> now, issued |-> {},
     before |-> IF fortifications[index].properties = NoBag THEN NoTags
                ELSE heap[fortifications[index].properties]]

\* enrichSingleFortification up to its await, enrichFortification up to
\* its first await or its return
enrichSingleFortification(p, fortId) ==
    /\ LowestIdle(p)
    /\ op' = [name |-> "enrichSingle", fortId |-> fortId]
    /\ LET index == findIndex(fortifications, fortId)
       IN  IF index = 0
           THEN /\ enr' = [enr EXCEPT ![p] = Returned]
                /\ UNCHANGED <<heap, extLoading, extError>>
           ELSE LET b == fortifications[index].properties
                    call == [enr EXCEPT ![p] = Call(fortId, index)]
                IN  IF b = NoBag
                    THEN /\ extError' = "TypeError"
                         /\ extLoading' = FALSE
                         /\ enr' = [call EXCEPT ![p].pc = "resolved"]
                         /\ UNCHANGED heap
                    ELSE \E dayLength \in DayLengths :
                         IF IsFresh(heap[b].lastFetched, dayLength)
                         THEN /\ extError' = "null"
                              /\ extLoading' = FALSE
                              /\ enr' = [call EXCEPT ![p].pc = "resolved"]
                              /\ UNCHANGED heap
                         ELSE /\ extError' = "null"
                              /\ LET next == NextStep("start", heap[b])
                                 IN  IF next = "stamp"
                                     THEN /\ heap' = [heap EXCEPT
                                                 ![b].lastFetched =
                                                     toISOString(now)]
                                          /\ enr' = [call EXCEPT
                                                 ![p].pc = "resolved"]
                                          /\ extLoading' = FALSE
                                     ELSE /\ UNCHANGED heap
                                          /\ enr' = [call EXCEPT
                                                 ![p].pc = next,
                                                 ![p].issued = {next}]
                                          /\ extLoading' = TRUE
    /\ UNCHANGED <<fortifications, loading, error, filters, isDataEnriched,
                   pendingLoads, loadsStarted, revision, now>>
    /\ UNCHANGED <<viewVars, convVars>>

EnrichFrame ==
    /\ UNCHANGED <<fortifications, loading, error, filters, isDataEnriched,
                   pendingLoads, loadsStarted, revision, now>>
    /\ UNCHANGED <<viewVars, convVars>>

\* part_004: after await fetchGoogleImages(searchTerm)
AfterGoogleImages(p, outcome) ==
    /\ enr[p].pc = "images"
    /\ op' = [name |-> "afterGoogleImages"]
    /\ LET b == TargetBag(p)
           googleImages == fetchGoogleImages(outcome)
           bag == IF Len(googleImages) > 0
                  THEN [heap[b] EXCEPT !.imageUrls = googleImages,
                                       !.imageSource = wgoogle]
                  ELSE heap[b]
       IN  Continue(p, b, bag, "images")
    /\ UNCHANGED extError
    /\ EnrichFrame

\* after await fetchWikidataData(properties.wikidata)
AfterWikidata(p, outcome) ==
    /\ enr[p].pc = "wikidata"
    /\ op' = [name |-> "afterWikidata"]
    /\ LET b == TargetBag(p)
           response == fetchWikidataData(outcome)
       IN  IF response.kind = "null"
           THEN Caught(p)
           ELSE LET withPeriod ==
                        IF response.entity /\ Truthy(response.period)
                        THEN [heap[b] EXCEPT !.period = response.period]
                        ELSE heap[b]
                    bag ==
                        IF response.entity /\ Truthy(response.style)
                        THEN [withPeriod EXCEPT
                                 !.constructionStyle = response.style]
                        ELSE withPeriod
                IN  /\ Continue(p, b, bag, "wikidata")
                    /\ UNCHANGED extError
    /\ EnrichFrame

\* imageUrls = imageUrls || []; imageUrls.push(...)
Push(array, items) == (IF array = Undefined THEN <<>> ELSE array) \o items

\* after await fetchWikipediaData(wikipediaTitle)
AfterWikipedia(p, outcome) ==
    /\ enr[p].pc = "wikipedia"
    /\ op' = [name |-> "afterWikipedia"]
    /\ LET b == TargetBag(p)
           response == fetchWikipediaData(outcome)
       IN  IF response.kind = "null"
           THEN Caught(p)
           ELSE LET withExtract ==
                        IF response.pages /\ Truthy(response.extract)
                        THEN [heap[b] EXCEPT !.description = response.extract]
                        ELSE heap[b]
                    withThumb ==
                        IF response.pages /\ response.thumbnail # <<>>
                        THEN [withExtract EXCEPT
                                 !.imageUrls = Push(@, response.thumbnail)]
                        ELSE withExtract
                    bag ==
                        IF response.pages /\ response.thumbnail # <<>>
                           /\ revision = "part_004"
                        THEN [withThumb EXCEPT !.imageSource = wwikipedia]
                        ELSE withThumb
                IN  /\ Continue(p, b, bag, "wikipedia")
                    /\ UNCHANGED extError
    /\ EnrichFrame

\* after await fetchWikipediaImages(wikipediaTitle), to the return
AfterWikipediaImages(p, outcome) ==
    /\ enr[p].pc = "wpImages"
    /\ op' = [name |-> "afterWikipediaImages"]
    /\ LET b == TargetBag(p)
           images == fetchWikipediaImages(outcome)
           withImages ==
               IF Len(images) = 0 THEN heap[b]
               ELSE IF revision = "part_004"
               THEN [heap[b] EXCEPT !.imageUrls = images,
                                    !.imageSource = wwikipedia]
               ELSE [heap[b] EXCEPT !.imageUrls = Push(@, images)]
           bag == [withImages EXCEPT
                      !.externalLinks = Push(@, <<"Wikipedia">>)]
       IN  Continue(p, b, bag, "wpImages")
    /\ UNCHANGED extError
    /\ EnrichFrame

\* the write-back with the elements before the index left out of the new
\* list
WriteBackDropsHead(p) ==
    /\ enr[p].pc = "resolved"
    /\ op' = [name |-> "writeBack", fortId |-> enr[p].fortId]
    /\ LET enrichedFort == enr[p].snap[enr[p].index]
           updatedForts == <<enrichedFort>>
                           \o SubSeq(enr[p].snap, enr[p].index + 1,
                                     Len(enr[p].snap))
       IN  /\ fortifications' = updatedForts
           /\ IF generateFiltersThrows(updatedForts)
              THEN UNCHANGED <<filters, isDataEnriched>>
              ELSE /\ filters' = generateFilters(Deref(updatedForts))
                   /\ isDataEnriched' = TRUE
    /\ enr' = [enr EXCEPT ![p] = Returned]
    /\ UNCHANGED <<loading, error, heap, pendingLoads, loadsStarted,
                   extLoading, extError, revision, now>>
    /\ UNCHANGED <<viewVars, convVars>>

\* enrichSingleFortification after await enrichFort(...)
WriteBack(p) ==
    /\ enr[p].pc = "resolved"
    /\ op' = [name |-> "writeBack", fortId |-> enr[p].fortId]
    /\ LET enrichedFort == enr[p].snap[enr[p].index]
           updatedForts == [enr[p].snap EXCEPT ![enr[p].index] = enrichedFort]
       IN  /\ fortifications' = updatedForts
           /\ IF generateFiltersThrows(updatedForts)
              THEN UNCHANGED <<filters, isDataEnriched>>
              ELSE /\ filters' = generateFilters(Deref(updatedForts))
                   /\ isDataEnriched' = TRUE
    /\ enr' = [enr EXCEPT ![p] = Returned]
    /\ UNCHANGED <<loading, error, heap, pendingLoads, loadsStarted,
                   extLoading, extError, revision, now>>
    /\ UNCHANGED <<viewVars, convVars>>

TickSteps == {24}

\* time passes, between the enrichments
Tick(d) ==
    /\ now + d <= MaxTime
    /\ Running = {}
    /\ now' = now + d
    /\ op' = [name |-> "tick"]
    /\ UNCHANGED <<fortifications, loading, error, filters, isDataEnriched,
                   heap, pendingLoads, loadsStarted, enr, extLoading,
                   extError, revision>>
    /\ UNCHANGED <<viewVars, convVars>>

-----------------------------------------------------------------------------
(* Specification of the hooks *)

\* App: the map, which issues the enrichments, is rendered when the load
\* is over and left no error; the retry button when it left one
MapShown == ~loading /\ error = "null"

ErrorShown == ~loading /\ error # "null"

Init ==
    /\ HookIdle
    /\ revision = "useExternalData.ts"
    /\ ViewIdle
    /\ ConvIdle

Next ==
    \/ LoadEffect
    \/ \E outcome \in LoadOutcomes : LoadSettle(outcome)
    \/ ErrorShown /\ retry
    \/ \E p \in Procs, fortId \in FortIds :
          MapShown /\ enrichSingleFortification(p, fortId)
    \/ \E p \in Procs, outcome \in WikidataOutcomes : AfterWikidata(p, outcome)
    \/ \E p \in Procs, outcome \in WikipediaOutcomes :
          AfterWikipedia(p, outcome)
    \/ \E p \in Procs, outcome \in WpImagesOutcomes :
          AfterWikipediaImages(p, outcome)
    \/ \E p \in Procs : WriteBack(p)
    \/ \E d \in TickSteps : Tick(d)

Spec == Init /\ [][Next]_vars

\* the hooks with the revision of useExternalData that looks for images
\* first, from the state a load of a feature collection has left: the list
\* and the facets set, the map shown
LoadedLists == {l \in FeatureLists : \A i \in DOMAIN l : l[i].properties # NoTags}

InitImages ==
    /\ \E l \in LoadedLists :
          /\ fortifications = Allocate(l, 0)
          /\ heap = NewBags(l, 0)
          /\ filters = generateFilters([i \in DOMAIN l |-> l[i].properties])
    /\ loading = FALSE /\ error = "null"
    /\ isDataEnriched = FALSE
    /\ pendingLoads = 0 /\ loadsStarted = 1
    /\ enr = [p \in Procs |-> NoEnrichment]
    /\ extLoading = FALSE /\ extError = "null"
    /\ now = 0 /\ op = [name |-> "init"]
    /\ revision = "part_004"
    /\ ViewIdle
    /\ ConvIdle

NextImages ==
    \/ \E p \in Procs, fortId \in FortIds :
          MapShown /\ enrichSingleFortification(p, fortId)
    \/ \E p \in Procs, outcome \in GoogleOutcomes :
          AfterGoogleImages(p, outcome)
    \/ \E p \in Procs, outcome \in WikidataOutcomes : AfterWikidata(p, outcome)
    \/ \E p \in Procs, outcome \in WikipediaOutcomes :
          AfterWikipedia(p, outcome)
    \/ \E p \in Procs, outcome \in WpImagesOutcomes :
          AfterWikipediaImages(p, outcome)
    \/ \E p \in Procs : WriteBack(p)

SpecImages == InitImages /\ [][NextImages]_vars

-----------------------------------------------------------------------------
(* Properties of enrichFortification *)

\* the call p has resolved and no other call was ever started
ResolvedAlone(p) ==
    /\ enr[p].pc = "resolved"
    /\ enr[p].before # NoTags
    /\ \A q \in Procs \ {p} : enr[q].pc = "idle"

\* hours between lastFetched and the call, none when lastFetched is no date
AgeAtCall(p) ==
    IF Truthy(enr[p].before.lastFetched)
       /\ DateParse(enr[p].before.lastFetched) # {}
    THEN Num(enr[p].startedAt - NumVal(DateParse(enr[p].before.lastFetched)))
    ELSE NoNum

\* the lookups the properties of the feature call for
Applicable(props) ==
    (IF Truthy(props.wikidata) THEN {"wikidata"} ELSE {})
    \cup (IF Truthy(props.wikipedia) THEN {"wikipedia", "wpImages"} ELSE {})

LookupsRunAndStamped(p) ==
    /\ enr[p].issued = Applicable(enr[p].before)
    /\ heap[TargetBag(p)].lastFetched = toISOString(now)

\* C5: a feature whose lastFetched is less than 24 hours before the call is
\* returned with the properties it had and without a lookup; one whose
\* lastFetched is 24 hours old or older, or absent, gets the applicable
\* lookups and lastFetched set to the current time
C5_FreshnessBy24Hours ==
    \A p \in Procs :
        ResolvedAlone(p) =>
            IF ~Truthy(enr[p].before.lastFetched) THEN LookupsRunAndStamped(p)
            ELSE IF AgeAtCall(p) = NoNum THEN TRUE
            ELSE IF NumVal(AgeAtCall(p)) < 24
            THEN /\ enr[p].issued = {}
                 /\ heap[TargetBag(p)] = enr[p].before
            ELSE LookupsRunAndStamped(p)

\* C6: whatever each lookup comes to, the enrichment of a feature that is
\* not fresh resolves having run every applicable lookup, and the feature
\* carries lastFetched stamped with the current time
C6_EveryLookupRunsAndStamps ==
    \A p \in Procs :
        (/\ ResolvedAlone(p)
         /\ \/ ~Truthy(enr[p].before.lastFetched)
            \/ AgeAtCall(p) # NoNum /\ NumVal(AgeAtCall(p)) >= 25)
        => LookupsRunAndStamped(p)

\* C7: when the call has completed, the property bag of the feature that
\* was passed in holds exactly the values it held before the call
C7_InputBagUnchanged ==
    \A p \in Procs :
        ResolvedAlone(p) => heap[TargetBag(p)] = enr[p].before

-----------------------------------------------------------------------------
(* Properties of useGeoJSON *)

\* the element has fortId as its id or as its properties['@id']
Matches(list, i, fortId) ==
    \/ list[i].id = fortId
    \/ /\ list[i].properties # NoBag
       /\ heap[list[i].properties].atId = fortId

\* the first matching element of the list, 0 when there is none
FirstMatch(list, fortId) ==
    IF \A i \in DOMAIN list : ~Matches(list, i, fortId) THEN 0
    ELSE CHOOSE i \in DOMAIN list :
             /\ Matches(list, i, fortId)
             /\ \A j \in 1..(i - 1) : ~Matches(list, j, fortId)

\* the call p writes its result into the list
WritesBack(p) == enr[p].pc = "resolved" /\ enr'[p].pc = "returned"

\* the list written is the list the call read, with the enriched copy of
\* the first match in the place of the first match
OnlyFirstMatchReplaced(p) ==
    LET list == enr[p].snap
        k == FirstMatch(list, enr[p].fortId)
    IN  /\ k # 0
        /\ enr[p].index = k
        /\ Len(fortifications') = Len(list)
        /\ \A i \in DOMAIN list :
              /\ fortifications'[i].id = list[i].id
              /\ fortifications'[i].geometry = list[i].geometry
              /\ i # k => fortifications'[i] = list[i]
        /\ fortifications'[k].properties = list[k].properties

\* a property bag changes only as the bag of the first match of a call
OnlyFirstMatchEnriched ==
    \A b \in (DOMAIN heap) \cap (DOMAIN heap') :
        heap'[b] # heap[b] =>
            \E p \in Procs :
                /\ enr'[p].pc \notin {"idle", "returned"}
                /\ FirstMatch(enr'[p].snap, enr'[p].fortId) # 0
                /\ b = enr'[p].snap[
                           FirstMatch(enr'[p].snap, enr'[p].fortId)].properties

\* C8: enrichSingleFortification(fortId) replaces the first element whose id
\* or properties['@id'] is fortId and nothing else: length, order and every
\* other element are as they were; with no match, fortifications, filters and
\* isDataEnriched are left as they are
C8_OnlyFirstMatchReplaced ==
    [][/\ \A p \in Procs : WritesBack(p) => OnlyFirstMatchReplaced(p)
       /\ op'.name # "loadSettle" => OnlyFirstMatchEnriched
       /\ (/\ op'.name = "enrichSingle"
           /\ FirstMatch(fortifications, op'.fortId) = 0)
          => /\ UNCHANGED <<fortifications, filters, isDataEnriched, heap>>
             /\ \A p \in Procs : enr'[p].pc \in {"idle", "returned"}
                                 \/ enr'[p] = enr[p]]_vars

\* reached: in a list whose two elements both match "1", the first by its id
\* and the second by its '@id', the call for "1" has written back and only
\* the first element is enriched
C8_Witness ==
    /\ op.name = "writeBack"
    /\ op.fortId = <<"1">>
    /\ isDataEnriched
    /\ Len(fortifications) = 2
    /\ fortifications[1].id = <<"1">>
    /\ fortifications[2].properties # NoBag
    /\ heap[fortifications[2].properties].atId = <<"1">>
    /\ Truthy(heap[fortifications[1].properties].lastFetched)
    /\ ~Truthy(heap[fortifications[2].properties].lastFetched)

\* the load that settled failed: the fetch or the parse did, or the
\* document is neither a FeatureCollection with features nor has elements
FailedLoad(o) ==
    \/ o.outcome \in {"networkError", "httpError", "invalidJson", "nullJson"}
    \/ /\ o.outcome = "json"
       /\ ~(o.type = "FeatureCollection" /\ o.hasFeatures)
       /\ ~o.hasElements

\* the failure of a failed load
FailureOf(o) ==
    CASE o.outcome = "networkError" -> "TypeError: Failed to fetch"
      [] o.outcome = "httpError" -> "Error: Failed to fetch GeoJSON"
      [] o.outcome = "invalidJson" -> "SyntaxError"
      [] o.outcome = "nullJson" -> "TypeError"
      [] OTHER -> "Error: Unrecognized data format in GeoJSON file"

\* C9: a load that fails leaves error set to the failure and loading false,
\* and the feature list and the facets as they were before the load
C9_FailedLoadKeepsListAndFacets ==
    [][(op'.name = "loadSettle" /\ FailedLoad(op'))
       => /\ error' = FailureOf(op')
          /\ loading' = FALSE
          /\ fortifications' = fortifications
          /\ filters' = filters]_vars

\* reached: a load has failed after an earlier one had filled the list
C9_Witness ==
    /\ op.name = "loadSettle"
    /\ FailedLoad(op)
    /\ error = FailureOf(op)
    /\ ~loading
    /\ fortifications # <<>>
    /\ filters # <<>>

\* C10: retry issues the fetch of the path again
C10_RetryReissuesFetch ==
    [][op'.name = "retry" => pendingLoads' = pendingLoads + 1]_vars

\* the property bags a parsed feature list gives to generateFilters, a
\* feature without properties counting as one without any property
BagsOf(list) ==
    [i \in DOMAIN list |->
        IF list[i].properties = NoTags THEN NoProps ELSE list[i].properties]

\* the object in the hook state is the parsed feature
SameFeature(fort, heapAfter, parsed) ==
    /\ fort.type = parsed.type
    /\ fort.id = parsed.id
    /\ fort.geometry = parsed.geometry
    /\ IF parsed.properties = NoTags THEN fort.properties = NoBag
       ELSE /\ fort.properties # NoBag
            /\ heapAfter[fort.properties] = parsed.properties

\* C11: a document of type FeatureCollection with a features array is
\* passed through: the feature list becomes exactly that array, also when
\* the document has an elements array too, and the facets are built from it
C11_FeatureCollectionPassedThrough ==
    [][(/\ op'.name = "loadSettle"
        /\ op'.outcome = "json"
        /\ op'.type = "FeatureCollection"
        /\ op'.hasFeatures)
       => LET list == Result(op'.features)
          IN  /\ Len(fortifications') = Len(list)
              /\ \A i \in DOMAIN list :
                    SameFeature(fortifications'[i], heap', list[i])
              /\ filters' = generateFilters(BagsOf(list))]_vars

-----------------------------------------------------------------------------
(* Properties of the normaliser, continued *)

\* C12: every node that passes the tag filter and has a latitude and a
\* longitude, one of them being 0 included, has its Point feature in the
\* output, with coordinates [longitude, latitude]
C12_NodeWithLatLonGivesPoint ==
    converted # Pending =>
        \A j \in DOMAIN osmElements :
            LET e == osmElements[j] IN
            (/\ e.type = wnode
             /\ IsFortification(e)
             /\ e.lat # NoNum /\ e.lon # NoNum
             /\ ~(NumVal(e.lat) = 0 /\ NumVal(e.lon) = 0))
            => \E i \in DOMAIN Result(converted) :
                  /\ Result(converted)[i].id = NumberToString(e.id)
                  /\ Result(converted)[i].geometry =
                         [type |-> "Point",
                          coordinates |-> <<NumVal(e.lon), NumVal(e.lat)>>]

\* the same letter, whatever the case of either
SameLetterAnyCase(a, b) ==
    \/ a = b
    \/ \E i \in 1..26 : {a, b} = {UpperCase[i], LowerCase[i]}

EqualsAnyCase(s, w) ==
    /\ Len(s) = Len(w)
    /\ \A i \in 1..Len(w) : SameLetterAnyCase(s[i], w[i])

ContainsAnyCase(s, w) ==
    \E k \in 0..(Len(s) - Len(w)) :
        \A i \in 1..Len(w) : SameLetterAnyCase(s[k + i], w[i])

\* the element has a feature in the output
InOutput(e) ==
    \E i \in DOMAIN Result(converted) :
        Result(converted)[i].id = NumberToString(e.id)

\* a node whose coordinates are kept by the geometry steps
LocatedNode(e) ==
    e.type = wnode /\ NumTruthy(e.lat) /\ NumTruthy(e.lon)

HasTag(tags, value) == tags # NoTags /\ value # Undefined

\* the tag criteria as the vocabulary states them
ExpectedTagMatch(tags) ==
    \/ /\ HasTag(tags, tags.historic)
       /\ \E i \in DOMAIN fortificationTags :
             ContainsAnyCase(tags.historic, fortificationTags[i])
    \/ /\ HasTag(tags, tags.military)
       /\ \/ EqualsAnyCase(tags.military, <<"b","u","n","k","e","r">>)
          \/ EqualsAnyCase(tags.military, <<"f","o","r","t","r","e","s","s">>)

\* C13: an element without a defence/defense tag passes the tag filter if
\* and only if its historic value contains a vocabulary word or its military
\* value equals bunker or fortress, whatever the case; an element without a
\* tag mapping is dropped
C13_TagFilterWithoutDefenceTag ==
    converted # Pending =>
        \A j \in DOMAIN osmElements :
            LET e == osmElements[j] IN
            /\ e.tags = NoTags => ~InOutput(e)
            /\ (/\ LocatedNode(e)
                /\ e.tags # NoTags
                /\ e.tags.defence = Undefined
                /\ e.tags.defense = Undefined)
               => (InOutput(e) <=> ExpectedTagMatch(e.tags))

\* reached: a node whose military value is "Bunker" and whose historic value
\* holds no vocabulary word was kept
C13_Witness ==
    /\ converted # Pending
    /\ Len(osmElements) = 1
    /\ LocatedNode(osmElements[1])
    /\ osmElements[1].tags # NoTags
    /\ osmElements[1].tags.military = <<"B","u","n","k","e","r">>
    /\ osmElements[1].tags.historic = wyes
    /\ InOutput(osmElements[1])

\* C14: an element that has a defence or a defense key passes the tag
\* filter whatever the value of that tag, the empty string included
C14_DefenceKeyAlwaysPasses ==
    converted # Pending =>
        \A j \in DOMAIN osmElements :
            LET e == osmElements[j] IN
            (/\ LocatedNode(e)
             /\ e.tags # NoTags
             /\ e.tags.defence # Undefined \/ e.tags.defense # Undefined)
            => InOutput(e)

\* the element a feature of the output comes from
ElementOf(f) ==
    CHOOSE e \in {osmElements[j] : j \in DOMAIN osmElements} :
        NumberToString(e.id) = f.id

\* C15: when the lowercased historic value of an output feature is one of
\* the vocabulary words, display_type is the display name of that word
C15_DisplayTypeOfVocabularyWord ==
    converted # Pending =>
        \A i \in DOMAIN Result(converted) :
            LET f == Result(converted)[i]
                e == ElementOf(f)
            IN  \A k \in DOMAIN typeMapping :
                    (/\ e.tags.historic # Undefined
                     /\ EqualsAnyCase(e.tags.historic, typeMapping[k][1]))
                    => f.properties.display_type = typeMapping[k][2]

\* the decimal digits of a number below 100
DecimalString(n) ==
    IF n < 10 THEN <<Digits[n + 1]>>
    ELSE <<Digits[(n \div 10) + 1], Digits[(n % 10) + 1]>>

TagKeys == DOMAIN NoProps

\* id and '@id' of every output feature
IdAndAtId(f, e) ==
    /\ f.id = DecimalString(e.id)
    /\ f.properties.atId = e.type \o <<"/">> \o DecimalString(e.id)

-----------------------------------------------------------------------------
(* Specification of the facets: a feature list is drawn, the hook builds   *)
(* the facets from it, and App takes search terms and facet selections.    *)

\* property bags of the features the facets are built from
FacetPool ==
    { [NoProps EXCEPT !.name = wfort, !.chptico = wCastle,
                      !.period = wmedieval, !.chpreg = wBretagne],
      [NoProps EXCEPT !.name = wforet, !.historic = wcastle],
      [NoProps EXCEPT !.chpdeno = wfort],
      [NoProps EXCEPT !.name = wfort, !.chptico = <<>>,
                      !.historic = wCastle, !.period = <<>>,
                      !.chpreg = wBretagne],
      [NoProps EXCEPT !.name = wchateau, !.display_type = wCastle,
                      !.period = wmedieval] }

FacetLists ==
    { [i \in DOMAIN q |-> Feat(NumberToString(i), q[i])] :
        q \in SeqsUpTo(FacetPool, MaxFacetForts) }

FacetSearchTerms == {<<>>, wfort}

FacetSelections ==
    { MkFilters(Absent, Absent, Absent, Absent),
      MkFilters(wCastle, Absent, Null, Absent) }

InitFacets ==
    /\ viewForts \in FacetLists
    /\ searchTerm = <<>>
    /\ activeFilters = MkFilters(Absent, Absent, Absent, Absent)
    /\ mapFiltered = Pending
    /\ sidebarFiltered = Pending
    /\ ConvIdle
    /\ HookIdle /\ revision = "useExternalData.ts"

\* the selections the Sidebar makes from the type group: one option
TypeSelections ==
    IF filters = <<>> THEN {}
    ELSE { MkFilters(filters[1].options[o].value, Absent, Absent, Absent) :
             o \in DOMAIN filters[1].options }

FacetFrame ==
    /\ UNCHANGED <<viewForts, mapFiltered, sidebarFiltered>>
    /\ UNCHANGED <<fortifications, loading, error, isDataEnriched, heap,
                   pendingLoads, loadsStarted, enr, extLoading, extError,
                   revision, now>>
    /\ UNCHANGED convVars

\* setFilters(generateFilters(list)), as the load and the enrichment do
SetFilters ==
    /\ filters' = generateFilters(
                      [i \in DOMAIN viewForts |-> viewForts[i].properties])
    /\ op' = [name |-> "setFilters"]
    /\ UNCHANGED <<searchTerm, activeFilters>>
    /\ FacetFrame

\* a search that also rebuilds the facets from the features it leaves
handleSearchRebuildsFacets(search) ==
    /\ searchTerm' = search
    /\ filters' = LET left == MapFilter(viewForts, search, activeFilters)
                  IN  generateFilters(
                          [i \in DOMAIN left |-> left[i].properties])
    /\ op' = [name |-> "handleSearch"]
    /\ UNCHANGED activeFilters
    /\ FacetFrame

\* App: handleSearch
handleSearch(search) ==
    /\ searchTerm' = search
    /\ op' = [name |-> "handleSearch"]
    /\ UNCHANGED <<activeFilters, filters>>
    /\ FacetFrame

\* App: handleFilterChange
handleFilterChange(selection) ==
    /\ activeFilters' = selection
    /\ op' = [name |-> "handleFilterChange"]
    /\ UNCHANGED <<searchTerm, filters>>
    /\ FacetFrame

\* FortificationMap computes its list again for the term and the
\* selection it was given
RenderSelection ==
    /\ mapFiltered' = Done(MapFilter(viewForts, searchTerm, activeFilters))
    /\ op' = [name |-> "renderMap"]
    /\ UNCHANGED <<viewForts, searchTerm, activeFilters, sidebarFiltered,
                   filters>>
    /\ UNCHANGED <<fortifications, loading, error, isDataEnriched, heap,
                   pendingLoads, loadsStarted, enr, extLoading, extError,
                   revision, now>>
    /\ UNCHANGED convVars

NextFacets ==
    \/ SetFilters
    \/ \E search \in FacetSearchTerms : handleSearch(search)
    \/ \E selection \in FacetSelections \cup TypeSelections :
          handleFilterChange(selection)
    \/ RenderSelection

SpecFacets == InitFacets /\ [][NextFacets]_vars

-----------------------------------------------------------------------------
(* Properties of the facets *)

\* the property bags of the list the facets are built from
FacetBags == [i \in DOMAIN viewForts |-> viewForts[i].properties]

\* the facets have been built from the list
FacetsBuilt == filters # <<>>

Populated(v) == v # Undefined /\ v # <<>>

GroupIds == [g \in DOMAIN filters |-> filters[g].id]

\* the number of features counted under value v in the group at position g
CountedUnder(g, v) ==
    LET options == filters[g].options
        at == {o \in DOMAIN options : options[o].value = v}
    IN  IF at = {} THEN 0 ELSE options[CHOOSE o \in at : TRUE].count

\* C17: the facets built from a list, the empty list included, start with
\* the type group; the period group follows exactly when some feature has
\* a non-empty period and the region group follows exactly when some
\* feature has a non-empty chpreg; the features with neither chptico nor
\* historic populated are the ones counted under the type "Unknown"
C17_GroupsReturned ==
    FacetsBuilt =>
        LET hasPeriod == \E i \in DOMAIN FacetBags :
                             Populated(FacetBags[i].period)
            hasRegion == \E i \in DOMAIN FacetBags :
                             Populated(FacetBags[i].chpreg)
        IN  /\ GroupIds = <<"type">>
                          \o (IF hasPeriod THEN <<"period">> ELSE <<>>)
                          \o (IF hasRegion THEN <<"region">> ELSE <<>>)
            /\ CountedUnder(1, wUnknown)
                 = Cardinality({i \in DOMAIN FacetBags :
                                   /\ ~Populated(FacetBags[i].chptico)
                                   /\ ~Populated(FacetBags[i].historic)})

\* facets built from a list in which the only period is the empty string,
\* one feature has a region and one has no classification field: the type
\* group and the region group, and one feature under "Unknown"
C17_Witness ==
    /\ FacetsBuilt
    /\ Len(viewForts) = 2
    /\ FacetBags[1].period = <<>>
    /\ FacetBags[1].chpreg = wBretagne
    /\ FacetBags[2].chptico = Undefined /\ FacetBags[2].historic = Undefined
    /\ GroupIds = <<"type", "region">>
    /\ CountedUnder(1, wUnknown) = 1

\* facets built from the empty list: the type group alone, without options
C17_WitnessEmptyList ==
    /\ FacetsBuilt
    /\ viewForts = <<>>
    /\ filters = <<[id |-> "type", name |-> "Type", options |-> <<>>]>>

\* the value feature i carries for the group with this id, Undefined when
\* it carries none
ObservedValue(id, i) ==
    LET b == FacetBags[i]
    IN  CASE id = "type" ->
                 IF Populated(b.chptico) THEN b.chptico
                 ELSE IF Populated(b.historic) THEN b.historic
                 ELSE wUnknown
          [] id = "period" ->
                 IF Populated(b.period) THEN b.period ELSE Undefined
          [] id = "region" ->
                 IF Populated(b.chpreg) THEN b.chpreg ELSE Undefined

Carriers(id, v) == {i \in DOMAIN FacetBags : ObservedValue(id, i) = v}

FirstSeen(id, v) ==
    CHOOSE i \in Carriers(id, v) : \A j \in Carriers(id, v) : i <= j

\* C18: in each group the options are the distinct values the features
\* carry, compared exactly, each once and with the number of features that
\* carry it; a higher count comes first and, of two equal counts, the
\* value seen first in the list comes first
C18_OptionsCountedAndOrdered ==
    FacetsBuilt =>
        \A g \in DOMAIN filters :
            LET id == filters[g].id
                options == filters[g].options
            IN  /\ {options[o].value : o \in DOMAIN options}
                     = {ObservedValue(id, i) : i \in DOMAIN FacetBags}
                       \ {Undefined}
                /\ \A o1, o2 \in DOMAIN options :
                       options[o1].value = options[o2].value => o1 = o2
                /\ \A o \in DOMAIN options :
                       options[o].count
                         = Cardinality(Carriers(id, options[o].value))
                /\ \A o1, o2 \in DOMAIN options :
                       o1 < o2 =>
                          \/ options[o1].count > options[o2].count
                          \/ /\ options[o1].count = options[o2].count
                             /\ FirstSeen(id, options[o1].value)
                                  < FirstSeen(id, options[o2].value)

\* facets built from three features of types "castle", "Castle", "Castle":
\* two options, "Castle" with count 2 before "castle" with count 1
C18_Witness ==
    /\ FacetsBuilt
    /\ Len(viewForts) = 3
    /\ ObservedValue("type", 1) = wcastle
    /\ ObservedValue("type", 2) = wCastle
    /\ ObservedValue("type", 3) = wCastle
    /\ Len(filters[1].options) = 2
    /\ filters[1].options[1].value = wCastle
    /\ filters[1].options[1].count = 2
    /\ filters[1].options[2].value = wcastle
    /\ filters[1].options[2].count = 1

-----------------------------------------------------------------------------
(* Properties of the evaluators, continued *)

\* the field a facet is compared with
FacetField(fort, facet) ==
    CASE facet = "type" ->
             IF Populated(fort.properties.chptico)
             THEN fort.properties.chptico
             ELSE fort.properties.historic
      [] facet = "period" -> fort.properties.period
      [] facet = "region" -> fort.properties.chpreg

\* the conjunction of the rules: named, text match, each selected facet
Visible(fort) ==
    /\ IsNamed(fort)
    /\ searchTerm # <<>> => TextMatch(fort, searchTerm)
    /\ \A facet \in {"type", "period", "region"} :
           (facet \in DOMAIN activeFilters /\ activeFilters[facet] # Null)
               => FacetField(fort, facet) = activeFilters[facet]

\* C20: the features the map shows are exactly the features of the list
\* that are named, match the search term when there is one, and equal the
\* selected value of each of the facets type, period and region that has a
\* non-null value; a facet that is absent or null and a facet of another
\* id put no constraint
C20_VisibleSetIsConjunction ==
    mapFiltered # Pending =>
        {Result(mapFiltered)[i] : i \in DOMAIN Result(mapFiltered)}
          = {viewForts[i] : i \in {j \in DOMAIN viewForts :
                                      Visible(viewForts[j])}}

\* the map has filtered a list by the term "foret", a null type, the
\* region and a facet of another id: the feature of that region matching
\* the term is shown, the one matching the term without region is not
C20_Witness ==
    /\ mapFiltered # Pending
    /\ searchTerm = wforet
    /\ DOMAIN activeFilters = {"type", "region", "era"}
    /\ activeFilters["type"] = Null
    /\ activeFilters["region"] = wBretagne
    /\ \E i \in DOMAIN Result(mapFiltered) :
          /\ Result(mapFiltered)[i].properties.chpdeno = wForetNFD
          /\ Result(mapFiltered)[i].properties.chpreg = wBretagne
    /\ \E i \in DOMAIN viewForts :
          /\ viewForts[i].properties.name = wforet
          /\ viewForts[i].properties.chpreg = Undefined
          /\ ~InList(viewForts[i], Result(mapFiltered))

\* s is t with some positions left out
IsSubsequence(s, t) ==
    \E at \in [DOMAIN s -> DOMAIN t] :
        /\ \A i, j \in DOMAIN s : i < j => at[i] < at[j]
        /\ \A i \in DOMAIN s : s[i] = t[at[i]]

\* C21: the list the map shows is the feature list with some positions
\* left out, nothing added, nothing twice and in the order of the list;
\* and computing the list of either view, the Sidebar's sort by name
\* included, leaves the feature list as it was
C21_VisibleListIsSubsequence ==
    [][/\ mapFiltered' # Pending
             => IsSubsequence(Result(mapFiltered'), viewForts')
       /\ viewForts' = viewForts]_vars

\* both views have computed their list from two named features that are
\* not in the order of their names: the map shows them in the order of the
\* list, the Sidebar in the other order
C21_Witness ==
    /\ mapFiltered # Pending /\ sidebarFiltered # Pending
    /\ Len(viewForts) = 2
    /\ viewForts[1] # viewForts[2]
    /\ Result(mapFiltered) = viewForts
    /\ Result(sidebarFiltered) = <<viewForts[2], viewForts[1]>>

-----------------------------------------------------------------------------
(* Properties of enrichFortification, continued *)

\* the call p resolved through the top-level catch
CaughtAlone(p) == ResolvedAlone(p) /\ extError = "TypeError"

\* C22: when an exception that is not a caught network error escapes a
\* step, the call resolves with the error set and the feature it returns
\* has exactly the properties the feature had before the call, without
\* partial enrichment and without lastFetched stamp
C22_CaughtCallReturnsOriginal ==
    \A p \in Procs :
        CaughtAlone(p) => heap[TargetBag(p)] = enr[p].before

\* the call p has resolved after its last Wikipedia lookup, on a feature
\* that carried a lastFetched stamp, with no other call under way
ReEnriched(p) ==
    /\ enr[p].pc = "resolved"
    /\ enr[p].before # NoTags
    /\ Truthy(enr[p].before.lastFetched)
    /\ "wpImages" \in enr[p].issued
    /\ \A q \in Procs \ {p} : enr[q].pc \in {"idle", "returned"}

\* the images one run can give: the thumbnail and the listed images
OneRunImages == <<"thumb.jpg">> \o fetchWikipediaImages("images")

\* C23: after the enrichment of a feature whose lastFetched was stale,
\* externalLinks holds one Wikipedia link and imageUrls holds images of
\* this run only: the fields are overwritten, not added to
C23_ReEnrichmentOverwrites ==
    \A p \in Procs :
        ReEnriched(p) =>
            LET bag == heap[TargetBag(p)]
            IN  /\ bag.externalLinks = <<"Wikipedia">>
                /\ bag.imageUrls # Undefined
                       => IsSubsequence(bag.imageUrls, OneRunImages)

-----------------------------------------------------------------------------
(* Properties of the normaliser: the display_type fallbacks *)

\* the historic value holds none of the vocabulary words
NoVocabularyWord(tags) ==
    \/ tags.historic = Undefined
    \/ \A i \in DOMAIN fortificationTags :
           ~ContainsAnyCase(tags.historic, fortificationTags[i])

\* the raw historic value, else the label of the military value, else
\* nothing
FallbackDisplayType(tags) ==
    IF tags.historic # Undefined /\ tags.historic # <<>> THEN tags.historic
    ELSE IF tags.military = Undefined THEN Undefined
    ELSE IF EqualsAnyCase(tags.military, <<"b","u","n","k","e","r">>)
    THEN <<"B","u","n","k","e","r">>
    ELSE IF EqualsAnyCase(tags.military, <<"f","o","r","t","r","e","s","s">>)
    THEN <<"F","o","r","t","r","e","s","s">>
    ELSE Undefined

RepositoryImagesOf(outcome) ==
    {fetchGoogleImages(outcome)[i] :
        i \in DOMAIN fetchGoogleImages(outcome)}

\* C25: when a call has resolved with the images of the feature marked
\* 'wikipedia', the encyclopedia lookup having given a thumbnail or listed
\* images, imageUrls holds no URL of the image repository
C25_WikipediaImagesReplaceRepositoryImages ==
    \A p \in Procs :
        (ResolvedAlone(p) /\ heap[TargetBag(p)].imageSource = wwikipedia)
            => \A i \in DOMAIN heap[TargetBag(p)].imageUrls :
                   \A o \in GoogleOutcomes :
                       heap[TargetBag(p)].imageUrls[i]
                           \notin RepositoryImagesOf(o)

-----------------------------------------------------------------------------
(* Properties of useGeoJSON: enrichments under way together *)

\* the call q is waiting for a lookup
AwaitsLookup(q) == enr[q].pc \in {"images", "wikidata", "wikipedia", "wpImages"}

\* not fresh, whatever the length of the calendar day
Stale(lastFetched) == \A dayLength \in DayLengths : ~IsFresh(lastFetched, dayLength)

\* the step starts the call p for a feature that the call q, waiting for a
\* lookup, is enriching, and that is not fresh
StartsBeside(p, q) ==
    /\ enr[p].pc = "idle" /\ enr'[p].pc # "idle"
    /\ op'.name = "enrichSingle"
    /\ AwaitsLookup(q)
    /\ enr[q].fortId = op'.fortId
    /\ findIndex(fortifications, op'.fortId) # 0
    /\ fortifications[findIndex(fortifications, op'.fortId)].properties
           = TargetBag(q)
    /\ Stale(heap[TargetBag(q)].lastFetched)

\* C26: an enrichment started for a feature while another one of the same
\* feature waits for a lookup is not held back: it passes the freshness
\* check and issues its first lookup as well; and the call that writes
\* back when no other call is left puts its own result in the list
C26_ConcurrentEnrichmentsNotDeduplicated ==
    [][\A p \in Procs :
          /\ \A q \in Procs \ {p} :
                 StartsBeside(p, q)
                     => /\ AwaitsLookup(p)'
                        /\ enr'[p].issued # {}
                        /\ enr'[p].issued \subseteq Applicable(enr'[p].before)
          /\ (WritesBack(p) /\ Running = {p})
                 => fortifications'[enr[p].index]
                      = enr[p].snap[enr[p].index]]_vars

\* two calls for the same feature have both issued lookups and resolved,
\* neither having written back yet
C26_Witness ==
    \E p, q \in Procs :
        /\ p # q
        /\ enr[p].pc = "resolved" /\ enr[q].pc = "resolved"
        /\ enr[p].fortId = enr[q].fortId
        /\ TargetBag(p) = TargetBag(q)
        /\ enr[p].issued # {} /\ enr[q].issued # {}

\* the step is the write-back of the call p, right after the write-back
\* for another feature of the same captured list
WritesBackAfterOther(p) ==
    /\ WritesBack(p)
    /\ op.name = "writeBack"
    /\ op.fortId # enr[p].fortId
    /\ enr[p].snap = fortifications
    /\ findIndex(fortifications, op.fortId) \notin {0, enr[p].index}
    /\ fortifications[findIndex(fortifications, op.fortId)].properties
           # NoBag

C28_FacetsNeverStale ==
    (FacetsBuilt /\ ~generateFiltersThrows(fortifications))
        => filters = generateFilters(Deref(fortifications))

-----------------------------------------------------------------------------
(* Properties of the facets and the evaluators together *)

\* the map has just computed its list for an empty search and the
\* selection of the type option at position o, and nothing else
ShowsTypeOption(o) ==
    /\ FacetsBuilt
    /\ op.name = "renderMap"
    /\ searchTerm = <<>>
    /\ o \in DOMAIN filters[1].options
    /\ activeFilters
         = MkFilters(filters[1].options[o].value, Absent, Absent, Absent)

\* C29: over a list of named features, the map filtered by an empty search
\* and the value of an option of the type group, "Unknown" included, shows
\* as many features as the count of the option
C29_TypeOptionCountIsShown ==
    \A o \in 1..MaxFacetForts :
        ShowsTypeOption(o)
            => Len(Result(mapFiltered)) = filters[1].options[o].count

-----------------------------------------------------------------------------
(* Properties of the evaluators: the two views *)

\* a selection the Sidebar can make: values of the type and region groups,
\* a deselected group having no key
SidebarSelection ==
    /\ DOMAIN activeFilters \subseteq {"type", "region"}
    /\ \A k \in DOMAIN activeFilters : activeFilters[k] # Null

\* the number of times f occurs in list
Occurrences(f, list) == Cardinality({i \in DOMAIN list : list[i] = f})

\* C30: for every list, every search term and every selection the Sidebar
\* can make, the list of the Sidebar and the list of the map hold the same
\* features, each as many times, so that the count the Sidebar shows is
\* the number of features on the map
C30_SidebarAndMapShowSameFeatures ==
    (mapFiltered # Pending /\ sidebarFiltered # Pending /\ SidebarSelection)
        => /\ \A i \in DOMAIN viewForts :
                  Occurrences(viewForts[i], Result(sidebarFiltered))
                    = Occurrences(viewForts[i], Result(mapFiltered))
           /\ Len(Result(sidebarFiltered)) = Len(Result(mapFiltered))

\* both views have filtered a list by the term "foret", the type "Castle"
\* and the region: each shows one feature and leaves one out
C30_Witness ==
    /\ mapFiltered # Pending /\ sidebarFiltered # Pending
    /\ searchTerm = wforet
    /\ activeFilters = MkFilters(wCastle, Absent, wBretagne, Absent)
    /\ Len(viewForts) = 2
    /\ Len(Result(mapFiltered)) = 1
    /\ Len(Result(sidebarFiltered)) = 1

====
